---------------------------- MODULE Spec2Model ----------------------------
(***************************************************************************)
(* A model of the quote pipeline of reddington-once-said: the text         *)
(* normalizer, the similarity scorer and the deduplicator of               *)
(* utils/data_processor.py, and the transcript enricher of                 *)
(* utils/enricher.py.                                                      *)
(*                                                                         *)
(* Texts are sequences of one-character strings.  A quote record is a      *)
(* record with the keys BaseScraper._make_quote gives it; Python's None is *)
(* the value None below.                                                   *)
(***************************************************************************)
EXTENDS Integers, Sequences, FiniteSets, TLC

VARIABLES
    nx,         \* normalizer run: the input string
    ncopy,      \* normalizer run: which copy ran ("none", "dedup", "enricher")
    n1,         \* normalizer run: normalize(nx)
    n2,         \* normalizer run: normalize(normalize(nx)), once computed
    npc,        \* normalizer run: "input", "once", "twice"
    quotes,     \* deduplicate run: the input list
    threshold,  \* deduplicate run: the threshold, a fraction <<num, den>>
    unique,     \* deduplicate run: deduplicate(quotes, threshold)
    kept,       \* deduplicate run: which objects of the sorted input unique
                \* holds, as their positions in the sorted list
    unique2,    \* deduplicate run: deduplicate(unique, threshold)
    dpc,        \* deduplicate run: "input", "once", "twice"
    cache,      \* enricher: the cache directory, episode key -> file content
                \* or NoFile
    seasons,    \* enrichment run: the seasons argument (<<>>: None)
    quotes0,    \* enrichment run: the collection as it was passed in
    equotes,    \* enrichment run: the collection (mutated in place)
    equotes2,   \* enrichment run: what a second enrich_quotes returns for it
    epc,        \* enrichment run: "input", "done", "twice"
    mquote,     \* matcher call: the quote argument
    mtranscript,\* matcher call: the norm_transcript argument
    mresult,    \* matcher call: what _find_in_transcript returned
    mpc,        \* matcher call: "input", "done"
    written,    \* cache: episode key -> the text a successful fetch wrote for
                \* it, NoFile while none did
    last,       \* cache: the operation that ran last, with its arguments,
                \* what it returned and the requests it issued
    calls,      \* cache: how many operations have run
    wkey,       \* cache write: the episode whose transcript is being cached
    wtext,      \* cache write: the transcript extracted from the page
    wpc,        \* cache write: "idle", "fetched" (about to open the file),
                \* "open" (file open for writing), "crashed"
    json_file,  \* main: the persisted JSON output (JSON_OUTPUT)
    csv_file,   \* main: the persisted CSV output (CSV_OUTPUT)
    json0,      \* main: the JSON output as it was when the run started
    csv0,       \* main: the CSV output as it was when the run started
    args,       \* main: the parsed command line
    phases,     \* main: the scraper phases still to run
    existing_quotes, \* run_collection: the quotes loaded from the JSON output
    new_quotes, \* run_collection: the quotes scraped so far
    all_quotes, \* run_collection / enrich_from_file: the collection in memory
    rpc,        \* main: the step the run is at; "done", "exited"
    interrupted_at, \* main: the step a KeyboardInterrupt arrived in, or "none"
    exit_status,\* main: the exit status of the process, -1 while it runs
    runs,       \* main: how many runs have started; the clock of the exports
    net,        \* main: the network events of the run so far, in order:
                \* "delay" (a sleep), "ok" and "error" (a request and its
                \* outcome)
    sinput,     \* sort_quotes call: the list passed
    soutput,    \* sort_quotes call: the list returned
    spc         \* sort_quotes call: "none", "input", "done"

nvars == <<nx, ncopy, n1, n2, npc>>
dvars == <<quotes, threshold, unique, kept, unique2, dpc>>
evars == <<cache, seasons, quotes0, equotes, equotes2, epc>>
mvars == <<mquote, mtranscript, mresult, mpc>>
\* The variables of the runs modelled further down.
cvars == <<written, last, calls>>
wvars == <<wkey, wtext, wpc>>
rvars == <<json_file, csv_file, json0, csv0, args, phases, existing_quotes,
           new_quotes, all_quotes, rpc, interrupted_at, exit_status, runs,
           net>>
svars == <<sinput, soutput, spc>>
xvars == <<mvars, cvars, wvars, rvars, svars>>
vars == <<nx, ncopy, n1, n2, npc, quotes, threshold, unique, kept, unique2, dpc,
          cache, seasons, quotes0, equotes, equotes2, epc,
          mquote, mtranscript, mresult, mpc, written, last, calls,
          wkey, wtext, wpc,
          json_file, csv_file, json0, csv0, args, phases, existing_quotes,
          new_quotes, all_quotes, rpc, interrupted_at, exit_status, runs,
          net, sinput, soutput, spc>>

-----------------------------------------------------------------------------
(* Bounds of the model. *)

\* The episodes of a season the site has a transcript page for:
\* 1..MaxPageEpisode.
MaxPageEpisode == 1
\* The most characters one flush of the file buffer adds to a cache file.
WriteChunk == 4
\* The most quotes the scraper phases of one run yield together.
MaxNew == 2
\* The most runs of main in a behaviour.
MaxRuns == 2
\* The longest list of a sort_quotes call.
MaxSort == 3
\* The most cache operations of a behaviour.
MaxCalls == 2
\* The most words of the quote of a matcher call.
MaxWords == 11
\* The longest input string of a normalizer run.
MaxStrLen == 3
\* The longest input list of a deduplicate run.
MaxQuotes == 3
\* The longest collection of an enrichment run.
MaxEnrichQuotes == 2
\* The episodes of a season that can have a cache file: 1..MaxEpisode.
MaxEpisode == 2
\* The most cache files there are when an enrichment run starts.
MaxCached == 2

-----------------------------------------------------------------------------
(* Characters.                                                             *)

LowerSeq ==
    <<"a", "b", "c", "d", "e", "f", "g", "h", "i", "j", "k", "l", "m", "n",
      "o", "p", "q", "r", "s", "t", "u", "v", "w", "x", "y", "z">>
UpperSeq ==
    <<"A", "B", "C", "D", "E", "F", "G", "H", "I", "J", "K", "L", "M", "N",
      "O", "P", "Q", "R", "S", "T", "U", "V", "W", "X", "Y", "Z">>
LowerLetters == {LowerSeq[i] : i \in 1..Len(LowerSeq)}
UpperLetters == {UpperSeq[i] : i \in 1..Len(UpperSeq)}
Digits == {"0", "1", "2", "3", "4", "5", "6", "7", "8", "9"}
\* Python's \s, and what str.strip() strips.
Whitespace == {" ", "\t", "\n", "\r"}
\* Python's \w: letters, digits and the underscore.
WordChars == LowerLetters \cup UpperLetters \cup Digits \cup {"_"}
Punctuation == {"!", "?", ".", ",", ":", "'"}

\* str.lower() on one character.
LowerChar(c) ==
    IF c \in UpperLetters
    THEN LowerSeq[CHOOSE i \in 1..Len(UpperSeq) : UpperSeq[i] = c]
    ELSE c

\* str.lower()
Lower(text) == [i \in 1..Len(text) |-> LowerChar(text[i])]

RECURSIVE LStrip(_)
LStrip(text) ==
    IF text # <<>> /\ Head(text) \in Whitespace THEN LStrip(Tail(text)) ELSE text

RECURSIVE RStrip(_)
RStrip(text) ==
    IF text # <<>> /\ text[Len(text)] \in Whitespace
    THEN RStrip(SubSeq(text, 1, Len(text) - 1))
    ELSE text

\* str.strip()
Strip(text) == RStrip(LStrip(text))

\* re.sub(r"[^\w\s]", "", text)
DropPunctuation(text) ==
    SelectSeq(text, LAMBDA c : c \in WordChars \/ c \in Whitespace)

\* re.sub(r"\s+", " ", text): every maximal run of whitespace becomes one space.
RECURSIVE CollapseWhitespace(_)
CollapseWhitespace(text) ==
    IF text = <<>> THEN <<>>
    ELSE IF Head(text) \in Whitespace
         THEN <<" ">> \o CollapseWhitespace(LStrip(text))
         ELSE <<Head(text)>> \o CollapseWhitespace(Tail(text))

\* data_processor._normalize_for_comparison: lower and strip first, then drop
\* the punctuation, then collapse the whitespace; nothing is stripped after.
normalize_for_comparison(text) ==
    CollapseWhitespace(DropPunctuation(Strip(Lower(text))))

\* QuoteEnricher._normalize: the enricher's copy, the same three lines.
normalize(text) ==
    CollapseWhitespace(DropPunctuation(Strip(Lower(text))))

-----------------------------------------------------------------------------
(* The similarity scorer: difflib.SequenceMatcher(None, a, b).ratio().      *)
(* Indices are Python's: 0-based, windows half-open.  No element is junk    *)
(* (isjunk is None) and none is "popular": autojunk only acts on a second   *)
(* string of 200 elements or more, longer than every text of the model.     *)

\* j2len[j] at iteration i of find_longest_match: the length of the longest
\* match that ends with a[i] and b[j] and stays inside the window.
RECURSIVE MatchEndingAt(_, _, _, _, _, _)
MatchEndingAt(a, b, i, j, alo, blo) ==
    IF i < alo \/ j < blo THEN 0
    ELSE IF a[i + 1] # b[j + 1] THEN 0
    ELSE 1 + MatchEndingAt(a, b, i - 1, j - 1, alo, blo)

\* SequenceMatcher.find_longest_match: the longest matching block of
\* a[alo:ahi] and b[blo:bhi]; of the longest, the one that starts earliest in
\* a, and of those the one that starts earliest in b (bestsize is replaced
\* only by a strictly longer match, i and j ascending).  <<besti, bestj, size>>.
find_longest_match(a, b, alo, ahi, blo, bhi) ==
    LET cells == (alo..(ahi - 1)) \X (blo..(bhi - 1))
        k == [c \in cells |-> MatchEndingAt(a, b, c[1], c[2], alo, blo)]
        sizes == {k[c] : c \in cells} \cup {0}
        bestsize == CHOOSE m \in sizes : \A x \in sizes : x <= m
        winners == {c \in cells : k[c] = bestsize}
        first == CHOOSE c \in winners : \A d \in winners :
                    c[1] < d[1] \/ (c[1] = d[1] /\ c[2] <= d[2])
    IN  IF bestsize = 0 THEN <<alo, blo, 0>>
        ELSE <<first[1] - bestsize + 1, first[2] - bestsize + 1, bestsize>>

\* SequenceMatcher.get_matching_blocks, summed: the longest block, then the
\* blocks to its left and to its right, recursively.
RECURSIVE MatchingTotal(_, _, _, _, _, _)
MatchingTotal(a, b, alo, ahi, blo, bhi) ==
    LET m == find_longest_match(a, b, alo, ahi, blo, bhi)
        i == m[1]
        j == m[2]
        k == m[3]
    IN  IF k = 0 THEN 0
        ELSE k
             + (IF alo < i /\ blo < j
                THEN MatchingTotal(a, b, alo, i, blo, j) ELSE 0)
             + (IF i + k < ahi /\ j + k < bhi
                THEN MatchingTotal(a, b, i + k, ahi, j + k, bhi) ELSE 0)

\* The number of matched characters of a against b (a is the first argument
\* of SequenceMatcher, b the second: the count depends on the order).
Matches(a, b) == MatchingTotal(a, b, 0, Len(a), 0, Len(b))

-----------------------------------------------------------------------------
(* Quote records and the inputs of a deduplicate run.                      *)

\* Python's None, for season and episode (an int or None).
None == -1

\* The texts the input records of a deduplicate run are drawn from: cleaned
\* as clean_all leaves them (10 characters or more, no whitespace at the ends,
\* single spaces).
\* normalizes to "ab aba aab"
TextA ==
    <<"A", "b", " ", "a", "b", "a", " ", "a", "a", "b", "!">>
\* another spelling with the same normalized text
TextA2 ==
    <<"a", "b", " ", "a", "b", "a", ",", " ", "a", "a", "b", ".">>
\* 9 characters of TextA match it, 8 of it match TextA
TextB ==
    <<"a", "b", " ", "a", " ", "b", " ", "b", "a", "a", "b">>
\* close to TextA and to TextD
TextC ==
    <<"a", "b", " ", "a", "b", "a", " ", "a", "a", "b", "b">>
\* close to TextC, not to TextA
TextD ==
    <<"b", "b", " ", "a", "b", "a", " ", "a", "a", "b", "b", "b">>
\* 10 characters, 6 of them left by the normalizer
TextShort ==
    <<"a", "b", " ", "a", "b", "a", ".", ".", "!", "!">>
\* twice as long as TextA, which is its prefix
TextLong ==
    <<"a", "b", " ", "a", "b", "a", " ", "a", "a", "b", " ", "a", "b", " ", "a", "b", "a", " ", "b", "a">>
TextPool == {TextA, TextA2, TextB, TextC, TextD, TextShort, TextLong}

\* BaseScraper._make_quote: the keys of a quote record.
MakeQuote(text, season, episode, episode_title, context) ==
    [quote |-> text, season |-> season, episode |-> episode,
     episode_title |-> episode_title, context |-> context,
     source_url |-> "u", source_name |-> "s"]

\* The records of the model: each text bare, and tagged with season, episode
\* and title.
RecordPool ==
    {MakeQuote(t, None, None, "", "") : t \in TextPool}
    \cup {MakeQuote(t, 1, 2, "t", "") : t \in TextPool}

\* The thresholds of the model, as fractions <<numerator, denominator>>: 0.5,
\* the default 0.85, and 1.0.
Thresholds == {<<1, 2>>, <<17, 20>>, <<1, 1>>}

SeqsUpTo(S, n) == UNION {[1..k -> S] : k \in 0..n}

-----------------------------------------------------------------------------
(* data_processor.py                                                       *)

\* The normalized texts of the model and their matched-character counts,
\* tabulated once (@@ makes TLC build the table instead of re-evaluating the
\* expression at every application).
NormTable == [t \in TextPool |-> normalize_for_comparison(t)] @@ <<>>
NormPool == {NormTable[t] : t \in TextPool}
MatchesTable ==
    [p \in NormPool \X NormPool |-> Matches(p[1], p[2])] @@ <<>>

\* _similarity: SequenceMatcher(None, a, b).ratio() = 2.0 * matches / length,
\* and 1.0 when both strings are empty; the fraction <<numerator, denominator>>.
similarity(a, b) ==
    LET m == IF <<a, b>> \in DOMAIN MatchesTable
             THEN MatchesTable[<<a, b>>] ELSE Matches(a, b)
    IN  IF Len(a) + Len(b) = 0 THEN <<1, 1>> ELSE <<2 * m, Len(a) + Len(b)>>

\* _normalize_for_comparison(text), looked up for the texts of the model.
norm_of(text) ==
    IF text \in DOMAIN NormTable THEN NormTable[text]
    ELSE normalize_for_comparison(text)

\* x >= y for fractions with positive denominators.
FracGeq(x, y) == x[1] * y[2] >= y[1] * x[2]

\* Python's truth value of an int-or-None and of a string.
TruthyInt(v) == v # None /\ v # 0
TruthyStr(v) == v # ""

\* A score that counts the context only.
metadata_score_context_only(q) ==
    IF TruthyStr(q.context) THEN 1 ELSE 0

\* deduplicate._metadata_score
metadata_score(q) ==
    (IF TruthyInt(q.season) THEN 2 ELSE 0)
    + (IF TruthyInt(q.episode) THEN 2 ELSE 0)
    + (IF TruthyStr(q.episode_title) THEN 1 ELSE 0)
    + (IF TruthyStr(q.context) THEN 1 ELSE 0)

\* The records of qs whose score is s, s - 1, ..., 0, each score's records in
\* their order in qs.
RECURSIVE SortedFrom(_, _)
SortedFrom(qs, s) ==
    IF s < 0 THEN <<>>
    ELSE SelectSeq(qs, LAMBDA q : metadata_score(q) = s) \o SortedFrom(qs, s - 1)

\* A descending sort that reverses the records of equal score
\* (sorted(...)[::-1] in place of reverse=True).
RECURSIVE ReverseSeq(_)
ReverseSeq(qs) ==
    IF qs = <<>> THEN <<>> ELSE Append(ReverseSeq(Tail(qs)), Head(qs))
RECURSIVE SortedUpTo(_, _)
SortedUpTo(qs, s) ==
    IF s < 0 THEN <<>>
    ELSE SortedUpTo(qs, s - 1) \o SelectSeq(qs, LAMBDA q : metadata_score(q) = s)
sorted_quotes_ties_reversed(qs) == ReverseSeq(SortedUpTo(qs, 6))

\* An ascending sort (reverse=True forgotten).
sorted_quotes_ascending(qs) == SortedUpTo(qs, 6)

\* sorted(quotes, key=_metadata_score, reverse=True): descending by score,
\* stable (records of equal score keep their order).
sorted_quotes(qs) == SortedFrom(qs, 6)

\* A length check that lets through only lengths within a tenth of each
\* other.
length_check_one_tenth(norm, existing_norm) ==
    LET m == IF Len(existing_norm) > 1 THEN Len(existing_norm) ELSE 1
    IN  10 * m < 11 * Len(norm) /\ 10 * Len(norm) < 11 * m

\* The quick length check: 0.5 < len(norm) / max(len(existing_norm), 1) < 2.0
length_check(norm, existing_norm) ==
    LET m == IF Len(existing_norm) > 1 THEN Len(existing_norm) ELSE 1
    IN  m < 2 * Len(norm) /\ Len(norm) < 2 * m

\* A comparison with > in place of >=.
similar_enough_strict(norm, existing_norm, thr) ==
    ~FracGeq(thr, similarity(norm, existing_norm))

\* _similarity(norm, existing_norm) >= threshold
similar_enough(norm, existing_norm, thr) ==
    FracGeq(similarity(norm, existing_norm), thr)

\* The inner loop of deduplicate: is norm a duplicate of an accepted text?
is_dup(norm, normalized_cache, thr) ==
    \E k \in 1..Len(normalized_cache) :
        /\ length_check(norm, normalized_cache[k])
        /\ similar_enough(norm, normalized_cache[k], thr)

\* A skip of the empty texts only.
too_short_empty_only(norm) == Len(norm) = 0

\* "Skip very short quotes that are likely artifacts": len(norm) < 10
MinNormLen == 10
too_short(norm) == Len(norm) < MinNormLen

\* The outer loop of deduplicate from position idx of sorted_qs on.  uniq
\* holds the accepted objects as their positions in sorted_qs,
\* normalized_cache their normalized texts.
RECURSIVE dedup_walk(_, _, _, _, _)
dedup_walk(sorted_qs, idx, uniq, normalized_cache, thr) ==
    IF idx > Len(sorted_qs) THEN uniq
    ELSE LET norm == norm_of(sorted_qs[idx].quote)
         IN  IF too_short(norm)
             THEN dedup_walk(sorted_qs, idx + 1, uniq, normalized_cache, thr)
             ELSE IF is_dup(norm, normalized_cache, thr)
             THEN dedup_walk(sorted_qs, idx + 1, uniq, normalized_cache, thr)
             ELSE dedup_walk(sorted_qs, idx + 1, Append(uniq, idx),
                             Append(normalized_cache, norm), thr)

\* The positions, in sorted(quotes), of the objects deduplicate returns.
kept_positions(qs, thr) ==
    IF qs = <<>> THEN <<>>
    ELSE dedup_walk(sorted_quotes(qs), 1, <<>>, <<>>, thr)

\* deduplicate(quotes, threshold): the accepted objects, in sorted order.
deduplicate(qs, thr) ==
    LET kp == kept_positions(qs, thr)
    IN  [k \in 1..Len(kp) |-> sorted_quotes(qs)[kp[k]]]

-----------------------------------------------------------------------------
(* base_scraper.py and data_processor.py: cleaning and sorting.            *)

\* The characters clean_quote names.  A character outside ASCII is written
\* as its code point.
DoubleQuote == "\""
SingleQuote == "'"
CurlyQuotes == {"U+201C", "U+201D", "U+2018", "U+2019"}
Ellipsis == "U+2026"
EmDash == "U+2014"
EnDash == "U+2013"

\* str.strip(chars): drop the characters of the set from both ends.
RECURSIVE LStripSet(_, _)
LStripSet(text, chars) ==
    IF text # <<>> /\ Head(text) \in chars THEN LStripSet(Tail(text), chars)
    ELSE text
RECURSIVE RStripSet(_, _)
RStripSet(text, chars) ==
    IF text # <<>> /\ text[Len(text)] \in chars
    THEN RStripSet(SubSeq(text, 1, Len(text) - 1), chars)
    ELSE text
StripSet(text, chars) == RStripSet(LStripSet(text, chars), chars)

\* The three str.replace calls of clean_quote.
RECURSIVE FixArtifacts(_)
FixArtifacts(text) ==
    IF text = <<>> THEN <<>>
    ELSE (CASE Head(text) = Ellipsis -> <<".", ".", ".">>
            [] Head(text) = EmDash -> <<" ", EmDash, " ">>
            [] Head(text) = EnDash -> <<" ", EnDash, " ">>
            [] OTHER -> <<Head(text)>>)
         \o FixArtifacts(Tail(text))

\* BaseScraper.clean_quote(text)
clean_quote(text) ==
    IF text = <<>> THEN <<>>
    ELSE Strip(FixArtifacts(CollapseWhitespace(
            StripSet(StripSet(StripSet(Strip(text), {DoubleQuote}),
                              {SingleQuote}), CurlyQuotes))))

\* clean_all(quotes): every text cleaned, the records with a cleaned text of
\* fewer than 10 characters removed.
clean_all(qs) ==
    SelectSeq([i \in 1..Len(qs) |->
                  [qs[i] EXCEPT !.quote = clean_quote(qs[i].quote)]],
              LAMBDA q : q.quote # <<>> /\ Len(q.quote) >= 10)

\* The characters of the model in code point order.
CharOrder ==
    <<"\t", "\n", "\r", " ", "!", "\"", "'", ",", ".">>
    \o <<"0", "1", "2", "3", "4", "5", "6", "7", "8", "9">>
    \o <<":", "?">> \o UpperSeq \o <<"_">> \o LowerSeq
    \o <<"U+2013", "U+2014", "U+2018", "U+2019", "U+201C", "U+201D",
         "U+2026">>
CodePoint(c) == CHOOSE i \in 1..Len(CharOrder) : CharOrder[i] = c

\* a < b for Python strings.
RECURSIVE TextLess(_, _)
TextLess(a, b) ==
    IF b = <<>> THEN FALSE
    ELSE IF a = <<>> THEN TRUE
    ELSE IF Head(a) = Head(b) THEN TextLess(Tail(a), Tail(b))
    ELSE CodePoint(Head(a)) < CodePoint(Head(b))

\* A key that puts a missing season or episode first.
sort_key_missing_first(q) ==
    <<IF TruthyInt(q.season) THEN q.season ELSE 0,
      IF TruthyInt(q.episode) THEN q.episode ELSE 0,
      q.quote>>

\* sort_quotes._sort_key: (season or 999, episode or 999, quote)
sort_key(q) ==
    <<IF TruthyInt(q.season) THEN q.season ELSE 999,
      IF TruthyInt(q.episode) THEN q.episode ELSE 999,
      q.quote>>

\* k1 < k2 for the key tuples.
SortKeyLess(k1, k2) ==
    \/ k1[1] < k2[1]
    \/ k1[1] = k2[1] /\ k1[2] < k2[2]
    \/ k1[1] = k2[1] /\ k1[2] = k2[2] /\ TextLess(k1[3], k2[3])

\* sorted() is stable: a record goes after the records whose key is not
\* greater than its own.
InsertByKey(sorted, q) ==
    LET p == Cardinality({i \in 1..Len(sorted) :
                             ~SortKeyLess(sort_key(q), sort_key(sorted[i]))})
    IN  SubSeq(sorted, 1, p) \o <<q>> \o SubSeq(sorted, p + 1, Len(sorted))

\* sort_quotes(quotes) = sorted(quotes, key=_sort_key)
RECURSIVE sort_quotes(_)
sort_quotes(qs) ==
    IF qs = <<>> THEN <<>>
    ELSE InsertByKey(sort_quotes(SubSeq(qs, 1, Len(qs) - 1)), qs[Len(qs)])

-----------------------------------------------------------------------------
(* enricher.py: the matcher.                                               *)

\* Is needle a substring of hay (Python's "needle in hay")?  The empty string
\* is a substring of every string.
IsSubstring(needle, hay) ==
    \E off \in 0..(Len(hay) - Len(needle)) :
        \A i \in 1..Len(needle) : hay[off + i] = needle[i]

\* str.split(): the maximal runs of non-whitespace characters.
RECURSIVE SplitFrom(_, _)
SplitFrom(text, word) ==
    IF text = <<>> THEN (IF word = <<>> THEN <<>> ELSE <<word>>)
    ELSE IF Head(text) \in Whitespace
         THEN (IF word = <<>> THEN <<>> ELSE <<word>>) \o SplitFrom(Tail(text), <<>>)
         ELSE SplitFrom(Tail(text), Append(word, Head(text)))
Split(text) == SplitFrom(text, <<>>)

\* " ".join(words)
RECURSIVE Join(_)
Join(words) ==
    IF words = <<>> THEN <<>>
    ELSE IF Len(words) = 1 THEN words[1]
    ELSE words[1] \o <<" ">> \o Join(Tail(words))

\* A window that moves by one word: range(0, stop, 1).
RECURSIVE RangeBy1(_, _)
RangeBy1(from, stop) ==
    IF from >= stop THEN <<>> ELSE <<from>> \o RangeBy1(from + 1, stop)

\* range(0, stop, 3) as a sequence.
RECURSIVE RangeBy3(_, _)
RangeBy3(from, stop) ==
    IF from >= stop THEN <<>> ELSE <<from>> \o RangeBy3(from + 3, stop)

\* The matcher without its exact tier.
find_in_transcript_no_exact_tier(quote, norm_transcript) ==
    LET quote_words == Split(normalize(quote))
        n == Len(quote_words)
        chunk_size == IF 5 < n - 1 THEN 5 ELSE n - 1
        starts == RangeBy3(0, n - chunk_size + 1)
        found == {c \in 1..Len(starts) :
                     IsSubstring(Join(SubSeq(quote_words, starts[c] + 1,
                                             starts[c] + chunk_size)),
                                 norm_transcript)}
    IN  /\ n > 5
        /\ Cardinality(found) >= (IF Len(starts) >= 3 THEN 2 ELSE 1)

\* The matcher with the key-phrase tier applied to quotes of any length.
find_in_transcript_no_short_rule(quote, norm_transcript) ==
    LET norm_quote == normalize(quote)
        quote_words == Split(norm_quote)
        n == Len(quote_words)
        chunk_size == IF 5 < n - 1 THEN 5 ELSE n - 1
        starts == RangeBy3(0, n - chunk_size + 1)
        found == {c \in 1..Len(starts) :
                     IsSubstring(Join(SubSeq(quote_words, starts[c] + 1,
                                             starts[c] + chunk_size)),
                                 norm_transcript)}
    IN  \/ IsSubstring(norm_quote, norm_transcript)
        \/ /\ n >= 2
           /\ Cardinality(found) >= (IF Len(starts) >= 3 THEN 2 ELSE 1)

\* A matcher whose first tier asks for a text that is not empty.
find_in_transcript_nonempty(quote, norm_transcript) ==
    LET norm_quote == normalize(quote)
        quote_words == Split(norm_quote)
        n == Len(quote_words)
        chunk_size == IF 5 < n - 1 THEN 5 ELSE n - 1
        starts == RangeBy3(0, n - chunk_size + 1)
        chunks == [c \in 1..Len(starts) |->
                      Join(SubSeq(quote_words, starts[c] + 1, starts[c] + chunk_size))]
        matches == Cardinality({c \in 1..Len(chunks) :
                                    IsSubstring(chunks[c], norm_transcript)})
        min_matches == IF Len(chunks) >= 3 THEN 2 ELSE 1
    IN  IF norm_quote # <<>> /\ IsSubstring(norm_quote, norm_transcript) THEN TRUE
        ELSE IF n <= 5 THEN FALSE
        ELSE IF chunks = <<>> THEN FALSE
        ELSE matches >= min_matches

\* QuoteEnricher._find_in_transcript, computed.
find_in_transcript_computed(quote, norm_transcript) ==
    LET norm_quote == normalize(quote)
        quote_words == Split(norm_quote)
        n == Len(quote_words)
        chunk_size == IF 5 < n - 1 THEN 5 ELSE n - 1
        starts == RangeBy3(0, n - chunk_size + 1)
        chunks == [c \in 1..Len(starts) |->
                      Join(SubSeq(quote_words, starts[c] + 1, starts[c] + chunk_size))]
        matches == Cardinality({c \in 1..Len(chunks) :
                                    IsSubstring(chunks[c], norm_transcript)})
        min_matches == IF Len(chunks) >= 3 THEN 2 ELSE 1
    IN  IF IsSubstring(norm_quote, norm_transcript) THEN TRUE
        ELSE IF n <= 5 THEN FALSE
        ELSE IF chunks = <<>> THEN FALSE
        ELSE matches >= min_matches

-----------------------------------------------------------------------------
(* The cache directory, the collections and the title index of the         *)
(* enrichment runs.                                                        *)

\* No file at a cache path.
NoFile == <<"no file">>

\* What open(cache_file, "r", encoding="utf-8").read() returns for a file that
\* holds content: text mode reads with universal newlines, so "\r\n" and a
\* lone "\r" both come back as "\n".
RECURSIVE ReadText(_)
ReadText(content) ==
    IF content = <<>> THEN <<>>
    ELSE IF Head(content) = "\r"
         THEN <<"\n">> \o (IF Len(content) >= 2 /\ content[2] = "\n"
                            THEN ReadText(Tail(Tail(content)))
                            ELSE ReadText(Tail(content)))
         ELSE <<Head(content)>> \o ReadText(Tail(content))

\* What open(cache_file, "w", encoding="utf-8").write(text) stores on a POSIX
\* system: the characters of the text, every "\n" as os.linesep.
LineSep == <<"\n">>
RECURSIVE WriteText(_)
WriteText(text) ==
    IF text = <<>> THEN <<>>
    ELSE (IF Head(text) = "\n" THEN LineSep ELSE <<Head(text)>>)
         \o WriteText(Tail(text))

\* QuoteEnricher.SEASON_EPISODES.get(season, 22)
SeasonEpisodes(season) ==
    CASE season = 3 -> 23
      [] season = 7 -> 19
      [] OTHER -> 22

\* list(range(1, 11)), the default of the seasons argument.
AllSeasons == <<1, 2, 3, 4, 5, 6, 7, 8, 9, 10>>

\* The episodes that can have a cache file in the model.
CacheKeys == {1, 2} \X (1..MaxEpisode)

\* The raw transcripts a cache file can hold.
\* normalizes to "x alpha beta c"
Transcript1 ==
    <<"X", ":", " ", "a", "l", "p", "h", "a", " ", "b", "e", "t", "a", ".",
      " ", "C">>
\* normalizes to itself
Transcript2 ==
    <<"a", "l", "p", "h", "a", " ", "b", "e", "t", "a", " ", "c", " ", "d",
      " ", "e", " ", "f">>
TranscriptPool == {Transcript1, Transcript2}

\* The states of the cache directory an enrichment run can start in.
CacheStates ==
    {c \in [CacheKeys -> TranscriptPool \cup {NoFile}] :
        Cardinality({k \in CacheKeys : c[k] # NoFile}) <= MaxCached}

\* The quote texts of the enrichment runs.
\* two words, verbatim in both transcripts once normalized
QuoteAB ==
    <<"A", "l", "p", "h", "a", " ", "b", "e", "t", "a", "!">>
\* two words, in no transcript
QuoteXY ==
    <<"g", "a", "m", "m", "a", " ", "d", "e", "l", "t", "a">>
\* six words, not verbatim in a transcript; its first five are in Transcript2
QuoteLong ==
    <<"a", "l", "p", "h", "a", " ", "b", "e", "t", "a", " ", "c", " ", "d",
      " ", "e", " ", "z">>
\* punctuation only: normalizes to the empty string
QuotePunct ==
    <<"?", "!", "?", "!", "?", "!", "?", "!", "?", "!">>
\* five words, not verbatim in a transcript; its first four are in
\* Transcript2 and every word but the last is in both transcripts
QuoteFive ==
    <<"a", "l", "p", "h", "a", " ", "b", "e", "t", "a", " ", "c", " ", "d",
      " ", "z">>
EnrichTexts == {QuoteAB, QuoteXY, QuoteLong, QuotePunct, QuoteFive}

\* The records of the enrichment runs: untagged ones, one with an episode
\* and a title but no season, and one already tagged.
EnrichRecordPool ==
    {MakeQuote(t, None, None, "", "") : t \in EnrichTexts}
    \cup {MakeQuote(QuoteAB, None, 5, "old", ""),
          MakeQuote(QuoteAB, 2, 1, "old", "")}

\* The seasons arguments of the model: None, [1], [2, 1].
SeasonsArgs == {<<>>, <<1>>, <<2, 1>>}

\* The title of an episode on the episode list page.
PageTitle(key) == IF key[1] = 1 THEN "s1" ELSE "s2"

\* What _get_episode_titles can return: the page's titles, or {} when the
\* request or the parse raised.  A dict is a function on its keys.
TitleIndexes == {[k \in CacheKeys |-> PageTitle(k)], <<>>}

\* titles.get(key, "")
TitleOf(titles, key) == IF key \in DOMAIN titles THEN titles[key] ELSE ""

\* self._normalize(raw) for the file contents of the model, tabulated once.
NormTranscriptTable ==
    [t \in TranscriptPool |-> normalize(ReadText(t))] @@ <<>>
norm_transcript_of(content) ==
    IF content \in DOMAIN NormTranscriptTable THEN NormTranscriptTable[content]
    ELSE normalize(ReadText(content))

\* The matcher's verdicts for the texts of the model, tabulated once.
NormTranscripts == {NormTranscriptTable[t] : t \in TranscriptPool}
FindTable ==
    [p \in EnrichTexts \X NormTranscripts |->
        find_in_transcript_computed(p[1], p[2])] @@ <<>>

\* QuoteEnricher._find_in_transcript(quote, norm_transcript)
find_in_transcript(quote, norm_transcript) ==
    IF <<quote, norm_transcript>> \in DOMAIN FindTable
    THEN FindTable[<<quote, norm_transcript>>]
    ELSE find_in_transcript_computed(quote, norm_transcript)

-----------------------------------------------------------------------------
(* enricher.py: enrich_quotes.                                             *)

\* The episodes 1..ep_count of a season whose cache file exists, ascending, as
\* <<key, normalized text>> pairs.
RECURSIVE LoadSeason(_, _, _)
LoadSeason(c, season, episode) ==
    IF episode > SeasonEpisodes(season) \/ <<season, episode>> \notin DOMAIN c
    THEN <<>>
    ELSE (IF c[<<season, episode>>] = NoFile THEN <<>>
          ELSE << <<(<<season, episode>>),
                     norm_transcript_of(c[<<season, episode>>])>> >>)
         \o LoadSeason(c, season, episode + 1)

\* QuoteEnricher._load_all_transcripts: the dict of the cached transcripts of
\* the seasons, in insertion order (an episode met again keeps its place).
RECURSIVE load_all_transcripts(_, _)
load_all_transcripts(c, ss) ==
    IF ss = <<>> THEN <<>>
    ELSE LET before == load_all_transcripts(c, SubSeq(ss, 1, Len(ss) - 1))
             keys == {before[i][1] : i \in 1..Len(before)}
         IN  before \o SelectSeq(LoadSeason(c, ss[Len(ss)], 1),
                                 LAMBDA e : e[1] \notin keys)

\* No filter: every record is processed.
is_untagged_everyone(q) == TRUE

\* "Filter to untagged quotes only": q.get("season") is None
is_untagged(q) == q.season = None

\* An inner loop that lets the last matching transcript tag the record.
RECURSIVE enrich_one_last_match(_, _, _, _)
enrich_one_last_match(q, transcripts, t, titles) ==
    IF t > Len(transcripts) THEN q
    ELSE LET later == enrich_one_last_match(q, transcripts, t + 1, titles)
         IN  IF later # q THEN later
             ELSE IF find_in_transcript(q.quote, transcripts[t][2])
             THEN [q EXCEPT !.season = transcripts[t][1][1],
                            !.episode = transcripts[t][1][2],
                            !.episode_title = TitleOf(titles, transcripts[t][1])]
             ELSE q

\* An inner loop that keeps the title of the record when the index has none
\* for the episode.
RECURSIVE enrich_one_keeps_title(_, _, _, _)
enrich_one_keeps_title(q, transcripts, t, titles) ==
    IF t > Len(transcripts) THEN q
    ELSE IF find_in_transcript(q.quote, transcripts[t][2])
    THEN [q EXCEPT !.season = transcripts[t][1][1],
                   !.episode = transcripts[t][1][2],
                   !.episode_title =
                       IF transcripts[t][1] \in DOMAIN titles
                       THEN titles[transcripts[t][1]] ELSE @]
    ELSE enrich_one_keeps_title(q, transcripts, t + 1, titles)

\* The inner loop of enrich_quotes for one untagged record: the first
\* transcript, from position t on, that the matcher accepts tags the record.
RECURSIVE enrich_one(_, _, _, _)
enrich_one(q, transcripts, t, titles) ==
    IF t > Len(transcripts) THEN q
    ELSE IF find_in_transcript(q.quote, transcripts[t][2])
    THEN [q EXCEPT !.season = transcripts[t][1][1],
                   !.episode = transcripts[t][1][2],
                   !.episode_title = TitleOf(titles, transcripts[t][1])]
    ELSE enrich_one(q, transcripts, t + 1, titles)

\* An enrich_quotes that goes over every record, tagged or not.
enrich_quotes_every_record(qs, ss, c, titles) ==
    LET transcripts == load_all_transcripts(c, IF ss = <<>> THEN AllSeasons ELSE ss)
    IN  [i \in 1..Len(qs) |-> enrich_one(qs[i], transcripts, 1, titles)]

\* enrich_quotes(quotes, seasons) with the title index the request gave.
enrich_quotes(qs, ss, c, titles) ==
    LET transcripts == load_all_transcripts(c, IF ss = <<>> THEN AllSeasons ELSE ss)
    IN  [i \in 1..Len(qs) |->
            IF is_untagged(qs[i]) THEN enrich_one(qs[i], transcripts, 1, titles)
            ELSE qs[i]]

-----------------------------------------------------------------------------
(* enricher.py: the transcript cache.                                      *)

\* What a request for a transcript page can give: a RequestException (network
\* or HTTP error), a page without a transcript container, or a page whose
\* container holds a text.
RequestError == <<"request error">>
NoContainer == <<"no container">>
\* a container with a transcript
PageText1 == Transcript1
\* a container with a transcript whose lines end in "\r\n"
PageTextCR ==
    <<"a", "l", "p", "h", "a", "\r", "\n", "b", "e", "t", "a">>
\* an empty container: script_div is a Tag, which is true, and its text is ""
PageTextEmpty == <<>>
PageTexts == {PageText1, PageTextCR, PageTextEmpty}
Responses == {RequestError, NoContainer} \cup PageTexts

\* The responses of the pages during a download_transcripts run.
DownloadResponses == {RequestError, PageTextEmpty, PageTextCR}

\* The episodes the site has a page for; a request for any other episode
\* raises.
PageKeys == {k \in CacheKeys : k[2] <= MaxPageEpisode}
ResponsesFor(k) == IF k \in PageKeys THEN Responses ELSE {RequestError}
ResponseOf(resp, k) == IF k \in DOMAIN resp THEN resp[k] ELSE RequestError

\* A fetch that never looks at the cache.
fetch_always_downloads(c, k, resp) ==
    IF resp \in {RequestError, NoContainer}
    THEN [cache |-> c, ret |-> <<>>, requests |-> <<k>>]
    ELSE [cache |-> [c EXCEPT ![k] = WriteText(resp)], ret |-> resp,
          requests |-> <<k>>]

\* QuoteEnricher._fetch_and_cache_transcript(season, episode) when the request,
\* if one is issued, gives resp: the cache directory afterwards, the text
\* returned and the requests issued.
fetch_and_cache_transcript(c, k, resp) ==
    IF c[k] # NoFile
    THEN [cache |-> c, ret |-> ReadText(c[k]), requests |-> <<>>]
    ELSE IF resp = RequestError
    THEN [cache |-> c, ret |-> <<>>, requests |-> <<k>>]
    ELSE IF resp = NoContainer
    THEN [cache |-> c, ret |-> <<>>, requests |-> <<k>>]
    ELSE [cache |-> [c EXCEPT ![k] = WriteText(resp)], ret |-> resp,
          requests |-> <<k>>]

\* The episodes download_transcripts goes through, in order, among those that
\* have a page in the model.
RECURSIVE SeasonVisits(_, _)
SeasonVisits(season, episode) ==
    IF episode > SeasonEpisodes(season) \/ <<season, episode>> \notin CacheKeys
    THEN <<>>
    ELSE << <<season, episode>> >> \o SeasonVisits(season, episode + 1)

RECURSIVE Visits(_)
Visits(ss) ==
    IF ss = <<>> THEN <<>> ELSE SeasonVisits(Head(ss), 1) \o Visits(Tail(ss))

\* The loop of download_transcripts from visit i on; resp gives the response
\* of each episode's page.
RECURSIVE download_from(_, _, _, _, _)
download_from(c, visits, i, resp, requests) ==
    IF i > Len(visits) THEN [cache |-> c, requests |-> requests]
    ELSE IF c[visits[i]] # NoFile
    THEN download_from(c, visits, i + 1, resp, requests)
    ELSE LET f == fetch_and_cache_transcript(c, visits[i],
                                             ResponseOf(resp, visits[i]))
         IN  download_from(f.cache, visits, i + 1, resp, requests \o f.requests)

\* QuoteEnricher.download_transcripts(seasons)
download_transcripts(c, ss, resp) ==
    download_from(c, Visits(IF ss = <<>> THEN AllSeasons ELSE ss), 1, resp, <<>>)

\* The keys that have a cache file.
Present(c) == {k \in CacheKeys : c[k] # NoFile}

\* The episodes a download_transcripts run requests: those it goes through
\* that have no cache file.
ToFetch(c, ss) ==
    LET visits == Visits(IF ss = <<>> THEN AllSeasons ELSE ss)
    IN  {visits[i] : i \in 1..Len(visits)} \ Present(c)

-----------------------------------------------------------------------------
(* exporter.py and main.py: the persisted outputs.                         *)

\* A path with no file, and a file just opened for writing.
AbsentFile == [exists |-> FALSE]
OpenedFile == [exists |-> TRUE, parts |-> <<>>]

\* What json.dump(output, f) writes, part after part: the metadata, the
\* quotes, the closing of the document.  A file that holds fewer parts is a
\* truncated document.
json_document(qs, now) ==
    <<[total_quotes |-> Len(qs), last_updated |-> now]>> \o qs
    \o <<[end |-> TRUE]>>

\* Can json.load parse the file?
json_complete(f) ==
    /\ f.exists
    /\ Len(f.parts) >= 2
    /\ f.parts[Len(f.parts)] = [end |-> TRUE]

\* data.get("quotes", []) of a parsed file.
json_quotes(f) == SubSeq(f.parts, 2, Len(f.parts) - 1)

\* load_existing_quotes(filepath)
load_existing_quotes(f) ==
    IF ~f.exists THEN <<>>
    ELSE IF ~json_complete(f) THEN <<>>
    ELSE json_quotes(f)

\* str(n) for a natural number, as a sequence of digits.
DigitSeq == <<"0", "1", "2", "3", "4", "5", "6", "7", "8", "9">>
RECURSIVE IntStr(_)
IntStr(n) ==
    IF n < 10 THEN <<DigitSeq[n + 1]>>
    ELSE IntStr(n \div 10) \o <<DigitSeq[(n % 10) + 1]>>

\* A cell of the CSV file: None is written as the empty string.
CsvInt(v) == IF v = None THEN <<>> ELSE IntStr(v)

\* writer.writerow(q) with the fieldnames of export_csv.
csv_row(q) ==
    [quote |-> q.quote, season |-> CsvInt(q.season),
     episode |-> CsvInt(q.episode), episode_title |-> q.episode_title,
     context |-> q.context, source_url |-> q.source_url,
     source_name |-> q.source_name]

\* What export_csv writes, part after part: the header, then a row a quote.
csv_document(qs) ==
    <<[header |-> <<"quote", "season", "episode", "episode_title", "context",
                    "source_url", "source_name">>]>>
    \o [i \in 1..Len(qs) |-> csv_row(qs[i])]

\* The flags of the command line.
Flags(enrich, enrich_seasons, quotes_only, wikiquote_only, imdb_only, transcripts_only, mine, ingest) ==
    [enrich |-> enrich, enrich_seasons |-> enrich_seasons,
     quotes_only |-> quotes_only, wikiquote_only |-> wikiquote_only,
     imdb_only |-> imdb_only, transcripts_only |-> transcripts_only,
     mine |-> mine, ingest |-> ingest]

\* The command lines of the model: no flag, --quotes-only,
\* --ingest f --mine, --enrich, --enrich --enrich-seasons 1.
ArgSets ==
    {Flags(FALSE, <<>>, FALSE, FALSE, FALSE, FALSE, FALSE, FALSE),
     Flags(FALSE, <<>>, TRUE, FALSE, FALSE, FALSE, FALSE, FALSE),
     Flags(FALSE, <<>>, FALSE, FALSE, FALSE, FALSE, TRUE, TRUE),
     Flags(TRUE, <<>>, FALSE, FALSE, FALSE, FALSE, FALSE, FALSE),
     Flags(TRUE, <<1>>, FALSE, FALSE, FALSE, FALSE, FALSE, FALSE)}

\* main, lines 249-261, and the order of the phases in run_collection.
enabled_phases(a) ==
    LET any == \/ a.quotes_only \/ a.wikiquote_only \/ a.imdb_only
               \/ a.transcripts_only \/ a.ingest \/ a.mine
        on(default, flag) == IF any THEN flag ELSE default
    IN  (IF a.ingest THEN <<"ingest">> ELSE <<>>)
        \o (IF on(TRUE, a.quotes_only) THEN <<"quotes">> ELSE <<>>)
        \o (IF on(TRUE, a.wikiquote_only) THEN <<"wikiquote">> ELSE <<>>)
        \o (IF on(TRUE, a.imdb_only) THEN <<"imdb">> ELSE <<>>)
        \o (IF on(TRUE, a.transcripts_only) THEN <<"transcripts">> ELSE <<>>)
        \o (IF on(FALSE, a.mine) THEN <<"mining">> ELSE <<>>)

\* What a scraper phase can yield: nothing, or a quote built by _make_quote.
RunPool ==
    {MakeQuote(TextA, None, None, "", ""), MakeQuote(TextA2, 1, 2, "t", ""),
     MakeQuote(QuoteAB, None, None, "", "")}
ScrapeYields == {<<>>} \cup {<<q>> : q \in RunPool}

\* The default threshold of deduplicate, 0.85.
DefaultThreshold == <<17, 20>>

\* The responses of the transcript pages during an enrichment run.
RunResponses == {RequestError, PageText1}

-----------------------------------------------------------------------------
(* The three kinds of run are separate: the variables of the runs that are *)
(* not taking place stay idle.                                             *)

DedupIdle ==
    /\ quotes = <<>> /\ threshold = <<17, 20>>
    /\ unique = <<>> /\ kept = <<>> /\ unique2 = <<>> /\ dpc = "idle"

NormIdle ==
    /\ nx = <<>> /\ ncopy = "none" /\ n1 = <<>> /\ n2 = <<>> /\ npc = "idle"

EnrichIdle ==
    /\ cache = <<>> /\ seasons = <<>> /\ quotes0 = <<>> /\ equotes = <<>>
    /\ equotes2 = <<>>
    /\ epc = "idle"

MatchIdle ==
    /\ mquote = <<>> /\ mtranscript = <<>> /\ mresult = FALSE /\ mpc = "idle"

CacheIdle ==
    /\ written = <<>> /\ last = [op |-> "none"] /\ calls = 0

\* The runs modelled further down are not taking place.
WriteIdle ==
    /\ wkey = <<>> /\ wtext = <<>> /\ wpc = "none"

RunIdle ==
    /\ json_file = <<>> /\ csv_file = <<>> /\ json0 = <<>> /\ csv0 = <<>>
    /\ args = <<>> /\ phases = <<>> /\ existing_quotes = <<>>
    /\ new_quotes = <<>> /\ all_quotes = <<>> /\ rpc = "none"
    /\ interrupted_at = "none" /\ exit_status = -1 /\ runs = 0
    /\ net = <<>>

SortIdle ==
    /\ sinput = <<>> /\ soutput = <<>> /\ spc = "none"

ExtraIdle == MatchIdle /\ CacheIdle /\ WriteIdle /\ RunIdle /\ SortIdle

-----------------------------------------------------------------------------
(* An enrichment run: the cache directory, the collection and the seasons  *)
(* argument are drawn and enrich_quotes is applied.                        *)

InitEnrich ==
    /\ cache \in CacheStates
    /\ seasons \in SeasonsArgs
    /\ quotes0 \in SeqsUpTo(EnrichRecordPool, MaxEnrichQuotes)
    /\ equotes = quotes0
    /\ equotes2 = <<>>
    /\ epc = "input"
    /\ NormIdle
    /\ DedupIdle
    /\ ExtraIdle

EnrichQuotes ==
    /\ epc = "input"
    /\ \E titles \in TitleIndexes :
        equotes' = enrich_quotes(equotes, seasons, cache, titles)
    /\ epc' = "done"
    /\ UNCHANGED <<cache, seasons, quotes0, equotes2>>
    /\ UNCHANGED nvars
    /\ UNCHANGED dvars
    /\ UNCHANGED xvars

\* enrich_quotes is called again on the collection it returned, with the
\* cache as it was and the title index the request gives this time.
EnrichQuotesAgain ==
    /\ epc = "done"
    /\ \E titles \in TitleIndexes :
        equotes2' = enrich_quotes(equotes, seasons, cache, titles)
    /\ epc' = "twice"
    /\ UNCHANGED <<cache, seasons, quotes0, equotes>>
    /\ UNCHANGED nvars
    /\ UNCHANGED dvars
    /\ UNCHANGED xvars

NextEnrich ==
    \/ EnrichQuotes
    \/ EnrichQuotesAgain

SpecEnrich == InitEnrich /\ [][NextEnrich]_vars

-----------------------------------------------------------------------------
(* A deduplicate run: the list and threshold are drawn, deduplicate is     *)
(* applied, and applied again to its own result.                           *)

InitDedup ==
    /\ quotes \in SeqsUpTo(RecordPool, MaxQuotes)
    /\ threshold \in Thresholds
    /\ unique = <<>>
    /\ kept = <<>>
    /\ unique2 = <<>>
    /\ dpc = "input"
    /\ NormIdle
    /\ EnrichIdle
    /\ ExtraIdle

Deduplicate ==
    /\ dpc = "input"
    /\ unique' = deduplicate(quotes, threshold)
    /\ kept' = kept_positions(quotes, threshold)
    /\ dpc' = "once"
    /\ UNCHANGED <<quotes, threshold, unique2>>
    /\ UNCHANGED nvars
    /\ UNCHANGED evars
    /\ UNCHANGED xvars

DeduplicateAgain ==
    /\ dpc = "once"
    /\ unique2' = deduplicate(unique, threshold)
    /\ dpc' = "twice"
    /\ UNCHANGED <<quotes, threshold, unique, kept>>
    /\ UNCHANGED nvars
    /\ UNCHANGED evars
    /\ UNCHANGED xvars

NextDedup == Deduplicate \/ DeduplicateAgain

SpecDedup == InitDedup /\ [][NextDedup]_vars

-----------------------------------------------------------------------------
(* A normalizer run: a string is drawn, one of the two copies of the       *)
(* normalizer is applied, and applied again to its own result.             *)

NormAlphabet == {"a", "A", "1", "_", " ", "\t", "!"}

InitNorm ==
    /\ nx \in SeqsUpTo(NormAlphabet, MaxStrLen)
    /\ ncopy = "none"
    /\ n1 = <<>>
    /\ n2 = <<>>
    /\ npc = "input"
    /\ DedupIdle
    /\ EnrichIdle
    /\ ExtraIdle

NormalizeForComparison ==
    /\ npc = "input"
    /\ n1' = normalize_for_comparison(nx)
    /\ ncopy' = "dedup"
    /\ npc' = "once"
    /\ UNCHANGED <<nx, n2>>
    /\ UNCHANGED dvars
    /\ UNCHANGED evars
    /\ UNCHANGED xvars

NormalizeEnricher ==
    /\ npc = "input"
    /\ n1' = normalize(nx)
    /\ ncopy' = "enricher"
    /\ npc' = "once"
    /\ UNCHANGED <<nx, n2>>
    /\ UNCHANGED dvars
    /\ UNCHANGED evars
    /\ UNCHANGED xvars

NormalizeAgain ==
    /\ npc = "once"
    /\ n2' = IF ncopy = "dedup" THEN normalize_for_comparison(n1)
             ELSE normalize(n1)
    /\ npc' = "twice"
    /\ UNCHANGED <<nx, ncopy, n1>>
    /\ UNCHANGED dvars
    /\ UNCHANGED evars
    /\ UNCHANGED xvars

NextNorm == NormalizeForComparison \/ NormalizeEnricher \/ NormalizeAgain

SpecNorm == InitNorm /\ [][NextNorm]_vars

-----------------------------------------------------------------------------
(* A matcher call: a quote and a normalized transcript are drawn and       *)
(* _find_in_transcript is applied.                                         *)

\* The words of the quotes of the matcher calls.
MatchWords == {<<"a">>, <<"b">>}

\* The quotes of the matcher calls: up to MaxWords words, single-spaced.
MatchQuotes == {Join(ws) : ws \in SeqsUpTo(MatchWords, MaxWords)}

\* The normalized transcripts of the matcher calls.
\* "a b a a b b"
MatchTranscript1 ==
    <<"a", " ", "b", " ", "a", " ", "a", " ", "b", " ", "b">>
\* "b b a b ab a a"
MatchTranscript2 ==
    <<"b", " ", "b", " ", "a", " ", "b", " ", "a", "b", " ", "a", " ", "a">>
\* "a a a a a a a a b"
MatchTranscript3 ==
    <<"a", " ", "a", " ", "a", " ", "a", " ", "a", " ", "a", " ", "a", " ",
      "a", " ", "b">>
MatchTranscripts == {MatchTranscript1, MatchTranscript2, MatchTranscript3}

InitMatch ==
    /\ mquote \in MatchQuotes
    /\ mtranscript \in MatchTranscripts
    /\ mresult = FALSE
    /\ mpc = "input"
    /\ NormIdle
    /\ DedupIdle
    /\ EnrichIdle
    /\ CacheIdle
    /\ WriteIdle
    /\ RunIdle
    /\ SortIdle

FindInTranscript ==
    /\ mpc = "input"
    /\ mresult' = find_in_transcript_computed(mquote, mtranscript)
    /\ mpc' = "done"
    /\ UNCHANGED <<mquote, mtranscript>>
    /\ UNCHANGED <<nvars, dvars, evars, cvars, wvars, rvars, svars>>

NextMatch == FindInTranscript

SpecMatch == InitMatch /\ [][NextMatch]_vars

-----------------------------------------------------------------------------
(* The life of the transcript cache: starting from an empty cache          *)
(* directory, the operations of QuoteEnricher run one after another,       *)
(* within one run or across runs.                                          *)

InitCache ==
    /\ cache = [k \in CacheKeys |-> NoFile]
    /\ written = [k \in CacheKeys |-> NoFile]
    /\ last = [op |-> "none"]
    /\ calls = 0
    /\ seasons = <<>> /\ quotes0 = <<>> /\ equotes = <<>> /\ epc = "idle"
    /\ equotes2 = <<>>
    /\ NormIdle
    /\ DedupIdle
    /\ MatchIdle
    /\ WriteIdle
    /\ RunIdle
    /\ SortIdle

FetchAndCacheTranscript ==
    /\ calls < MaxCalls
    /\ \E k \in CacheKeys : \E resp \in ResponsesFor(k) :
        LET f == fetch_and_cache_transcript(cache, k, resp)
        IN  /\ cache' = f.cache
            /\ written' = IF f.cache[k] # cache[k]
                           THEN [written EXCEPT ![k] = resp] ELSE written
            /\ last' = [op |-> "fetch", key |-> k, present |-> Present(cache),
                         ret |-> f.ret, requests |-> f.requests]
    /\ calls' = calls + 1
    /\ UNCHANGED <<seasons, quotes0, equotes, equotes2, epc>>
    /\ UNCHANGED <<nvars, dvars, mvars, wvars, rvars, svars>>

DownloadTranscripts ==
    /\ calls < MaxCalls
    /\ \E ss \in SeasonsArgs :
       \E resp \in [ToFetch(cache, ss) \cap PageKeys -> DownloadResponses] :
        LET d == download_transcripts(cache, ss, resp)
        IN  /\ cache' = d.cache
            /\ written' = [k \in CacheKeys |->
                              IF d.cache[k] # cache[k] THEN ResponseOf(resp, k)
                              ELSE written[k]]
            /\ last' = [op |-> "download", seasons |-> ss,
                         present |-> Present(cache), requests |-> d.requests,
                         failed |->
                            {k \in ToFetch(cache, ss) :
                                fetch_and_cache_transcript(
                                    cache, k, ResponseOf(resp, k)).ret = <<>>}]
    /\ calls' = calls + 1
    /\ UNCHANGED <<seasons, quotes0, equotes, equotes2, epc>>
    /\ UNCHANGED <<nvars, dvars, mvars, wvars, rvars, svars>>

LoadAllTranscripts ==
    /\ calls < MaxCalls
    /\ \E ss \in SeasonsArgs \ {<<>>} :
        last' = [op |-> "load", seasons |-> ss, present |-> Present(cache),
                 ret |-> load_all_transcripts(cache, ss), requests |-> <<>>]
    /\ calls' = calls + 1
    /\ UNCHANGED <<cache, written, seasons, quotes0, equotes, equotes2, epc>>
    /\ UNCHANGED <<nvars, dvars, mvars, wvars, rvars, svars>>

EnrichOnCache ==
    /\ calls < MaxCalls
    /\ \E ss \in SeasonsArgs, q \in EnrichRecordPool, titles \in TitleIndexes :
        /\ seasons' = ss
        /\ quotes0' = <<q>>
        /\ equotes' = enrich_quotes(<<q>>, ss, cache, titles)
        /\ last' = [op |-> "enrich", seasons |-> ss, present |-> Present(cache),
                     requests |-> <<>>]
    /\ epc' = "done"
    /\ calls' = calls + 1
    /\ UNCHANGED <<cache, written, equotes2>>
    /\ UNCHANGED <<nvars, dvars, mvars, wvars, rvars, svars>>

NextCache ==
    \/ FetchAndCacheTranscript
    \/ DownloadTranscripts
    \/ LoadAllTranscripts
    \/ EnrichOnCache

SpecCache == InitCache /\ [][NextCache]_vars

-----------------------------------------------------------------------------
(* The cache write of _fetch_and_cache_transcript, step by step, in a      *)
(* process that can die at any point: the page has been fetched and its    *)
(* transcript extracted, the cache file is opened for writing (created     *)
(* empty), the buffered data reaches the file flush by flush, and the      *)
(* file is closed.  After a crash a new run starts on the cache directory  *)
(* as the crash left it.                                                   *)

InitCrash ==
    /\ cache = [k \in CacheKeys |-> NoFile]
    /\ wkey = <<>> /\ wtext = <<>> /\ wpc = "idle"
    /\ seasons = <<>> /\ quotes0 = <<>> /\ equotes = <<>> /\ epc = "idle"
    /\ equotes2 = <<>>
    /\ NormIdle
    /\ DedupIdle
    /\ MatchIdle
    /\ CacheIdle
    /\ RunIdle
    /\ SortIdle

\* What the cache write leaves alone.
WriteFrame ==
    /\ UNCHANGED <<seasons, quotes0, equotes, equotes2, epc>>
    /\ UNCHANGED <<nvars, dvars, mvars, cvars, rvars, svars>>

\* Lines 77-103: no cache file, the request succeeded, the transcript is
\* extracted.
FetchPage ==
    /\ wpc = "idle"
    /\ \E k \in PageKeys, t \in PageTexts :
        /\ cache[k] = NoFile
        /\ wkey' = k
        /\ wtext' = t
    /\ wpc' = "fetched"
    /\ UNCHANGED cache
    /\ WriteFrame

\* Line 114: open(cache_file, "w") creates the file, empty.
OpenCacheFile ==
    /\ wpc = "fetched"
    /\ cache' = [cache EXCEPT ![wkey] = <<>>]
    /\ wpc' = "open"
    /\ UNCHANGED <<wkey, wtext>>
    /\ WriteFrame

\* Line 115: f.write(transcript); a part of the data reaches the file.
FlushSomeData ==
    /\ wpc = "open"
    /\ Len(cache[wkey]) < Len(WriteText(wtext))
    /\ \E n \in 1..WriteChunk :
        /\ Len(cache[wkey]) + n <= Len(WriteText(wtext))
        /\ cache' = [cache EXCEPT
                        ![wkey] = SubSeq(WriteText(wtext), 1, Len(cache[wkey]) + n)]
    /\ UNCHANGED <<wkey, wtext, wpc>>
    /\ WriteFrame

\* The end of the with block: the rest of the data reaches the file and the
\* file is closed; the call returns.
CloseCacheFile ==
    /\ wpc = "open"
    /\ cache' = [cache EXCEPT ![wkey] = WriteText(wtext)]
    /\ wpc' = "idle"
    /\ UNCHANGED <<wkey, wtext>>
    /\ WriteFrame

\* The process dies (killed, power loss) while the transcript is being
\* cached.
Crash ==
    /\ wpc \in {"fetched", "open"}
    /\ wpc' = "crashed"
    /\ UNCHANGED <<cache, wkey, wtext>>
    /\ WriteFrame

\* A new run starts after the crash.
NextRun ==
    /\ wpc = "crashed"
    /\ wpc' = "idle"
    /\ UNCHANGED <<cache, wkey, wtext>>
    /\ WriteFrame

NextCrash ==
    \/ FetchPage
    \/ OpenCacheFile
    \/ FlushSomeData
    \/ CloseCacheFile
    \/ Crash
    \/ NextRun

SpecCrash == InitCrash /\ [][NextCrash]_vars

-----------------------------------------------------------------------------
(* Runs of main, step by step, each of which a KeyboardInterrupt can end:  *)
(* a collection run (run_collection) or an enrichment run (run_enrichment, *)
(* enrich_from_file), on the outputs and the transcript cache the earlier  *)
(* runs left.                                                              *)

InitRun ==
    /\ json_file = AbsentFile /\ csv_file = AbsentFile
    /\ json0 = AbsentFile /\ csv0 = AbsentFile
    /\ args \in ArgSets
    /\ phases = enabled_phases(args)
    /\ existing_quotes = <<>> /\ new_quotes = <<>> /\ all_quotes = <<>>
    /\ rpc = "start"
    /\ interrupted_at = "none"
    /\ exit_status = -1
    /\ runs = 1
    /\ net = <<>>
    /\ cache = [k \in CacheKeys |-> NoFile]
    /\ seasons = <<>> /\ quotes0 = <<>> /\ equotes = <<>> /\ epc = "idle"
    /\ equotes2 = <<>>
    /\ NormIdle
    /\ DedupIdle
    /\ MatchIdle
    /\ CacheIdle
    /\ WriteIdle
    /\ SortIdle

\* What no step of a run touches.
TraceFrame ==
    /\ UNCHANGED <<seasons, quotes0, equotes, equotes2, epc>>
    /\ UNCHANGED <<nvars, dvars, mvars, cvars, wvars, svars>>

\* The steps below keep no trace of the requests they issue.
RunFrame ==
    /\ TraceFrame
    /\ UNCHANGED net

\* What a step of a run leaves alone unless it says otherwise.
RunSame ==
    /\ UNCHANGED <<json0, csv0, args, interrupted_at, exit_status, runs>>
    /\ RunFrame

\* main, lines 240-243: the mode of the run.
StartMain ==
    /\ rpc = "start"
    /\ rpc' = IF args.enrich THEN "e_check" ELSE "load"
    /\ UNCHANGED <<json_file, csv_file, cache, phases, existing_quotes,
                   new_quotes, all_quotes>>
    /\ RunSame

\* run_collection, step 1.
LoadExisting ==
    /\ rpc = "load"
    /\ existing_quotes' = load_existing_quotes(json_file)
    /\ rpc' = "scrape"
    /\ UNCHANGED <<json_file, csv_file, cache, phases, new_quotes, all_quotes>>
    /\ RunSame

\* run_collection, step 2: the next enabled scraper phase.
ScrapePhase ==
    /\ rpc = "scrape"
    /\ phases # <<>>
    /\ \E y \in ScrapeYields :
        /\ Len(new_quotes) + Len(y) <= MaxNew
        /\ new_quotes' = new_quotes \o y
    /\ phases' = Tail(phases)
    /\ UNCHANGED <<json_file, csv_file, cache, existing_quotes, all_quotes, rpc>>
    /\ RunSame

\* run_collection, step 3.
Merge ==
    /\ rpc = "scrape"
    /\ phases = <<>>
    /\ all_quotes' = existing_quotes \o new_quotes
    /\ rpc' = "clean"
    /\ UNCHANGED <<json_file, csv_file, cache, phases, existing_quotes,
                   new_quotes>>
    /\ RunSame

\* A clean step that also saves what it has.
CleanAllAndSave ==
    /\ rpc = "clean"
    /\ all_quotes' = clean_all(all_quotes)
    /\ json_file' = [exists |-> TRUE,
                      parts |-> json_document(clean_all(all_quotes), runs)]
    /\ rpc' = "dedup"
    /\ UNCHANGED <<csv_file, cache, phases, existing_quotes, new_quotes>>
    /\ RunSame

\* run_collection, step 4: clean_all
CleanAll ==
    /\ rpc = "clean"
    /\ all_quotes' = clean_all(all_quotes)
    /\ rpc' = "dedup"
    /\ UNCHANGED <<json_file, csv_file, cache, phases, existing_quotes,
                   new_quotes>>
    /\ RunSame

\* run_collection, step 4: deduplicate
DeduplicateAll ==
    /\ rpc = "dedup"
    /\ all_quotes' = deduplicate(all_quotes, DefaultThreshold)
    /\ rpc' = "sort"
    /\ UNCHANGED <<json_file, csv_file, cache, phases, existing_quotes,
                   new_quotes>>
    /\ RunSame

\* run_collection, step 4: sort_quotes
SortQuotes ==
    /\ rpc = "sort"
    /\ all_quotes' = sort_quotes(all_quotes)
    /\ rpc' = "export_json"
    /\ UNCHANGED <<json_file, csv_file, cache, phases, existing_quotes,
                   new_quotes>>
    /\ RunSame

\* export_json: open(filepath, "w") truncates the file.
OpenJson ==
    /\ rpc = "export_json"
    /\ json_file' = OpenedFile
    /\ rpc' = "write_json"
    /\ UNCHANGED <<csv_file, cache, phases, existing_quotes, new_quotes,
                   all_quotes>>
    /\ RunSame

\* export_json: json.dump writes the next part of the document.
WriteJson ==
    /\ rpc = "write_json"
    /\ Len(json_file.parts) < Len(json_document(all_quotes, runs))
    /\ json_file' =
          [json_file EXCEPT
              !.parts = SubSeq(json_document(all_quotes, runs), 1, Len(@) + 1)]
    /\ UNCHANGED <<csv_file, cache, phases, existing_quotes, new_quotes,
                   all_quotes, rpc>>
    /\ RunSame

\* export_json: the document is written, the file is closed.
CloseJson ==
    /\ rpc = "write_json"
    /\ json_file.parts = json_document(all_quotes, runs)
    /\ rpc' = "export_csv"
    /\ UNCHANGED <<json_file, csv_file, cache, phases, existing_quotes,
                   new_quotes, all_quotes>>
    /\ RunSame

\* export_csv: open(filepath, "w") truncates the file.
OpenCsv ==
    /\ rpc = "export_csv"
    /\ csv_file' = OpenedFile
    /\ rpc' = "write_csv"
    /\ UNCHANGED <<json_file, cache, phases, existing_quotes, new_quotes,
                   all_quotes>>
    /\ RunSame

\* export_csv: the header or the next row is written.
WriteCsv ==
    /\ rpc = "write_csv"
    /\ Len(csv_file.parts) < Len(csv_document(all_quotes))
    /\ csv_file' =
          [csv_file EXCEPT
              !.parts = SubSeq(csv_document(all_quotes), 1, Len(@) + 1)]
    /\ UNCHANGED <<json_file, cache, phases, existing_quotes, new_quotes,
                   all_quotes, rpc>>
    /\ RunSame

\* export_csv: the rows are written, the file is closed.
CloseCsv ==
    /\ rpc = "write_csv"
    /\ csv_file.parts = csv_document(all_quotes)
    /\ rpc' = "stats"
    /\ UNCHANGED <<json_file, csv_file, cache, phases, existing_quotes,
                   new_quotes, all_quotes>>
    /\ RunSame

\* The statistics are printed and main returns.
Finish ==
    /\ rpc = "stats"
    /\ rpc' = "done"
    /\ exit_status' = 0
    /\ UNCHANGED <<json_file, csv_file, cache, phases, existing_quotes,
                   new_quotes, all_quotes>>
    /\ UNCHANGED <<json0, csv0, args, interrupted_at, runs>>
    /\ RunFrame

\* run_enrichment: without a quotes file the run ends at once.
EnrichCheck ==
    /\ rpc = "e_check"
    /\ rpc' = IF json_file.exists THEN "e_load" ELSE "done"
    /\ exit_status' = IF json_file.exists THEN exit_status ELSE 0
    /\ UNCHANGED <<json_file, csv_file, cache, phases, existing_quotes,
                   new_quotes, all_quotes>>
    /\ UNCHANGED <<json0, csv0, args, interrupted_at, runs>>
    /\ RunFrame

\* enrich_from_file: json.load; a file that does not parse raises, and main
\* re-raises.
EnrichLoad ==
    /\ rpc = "e_load"
    /\ IF json_complete(json_file)
       THEN /\ all_quotes' = json_quotes(json_file)
            /\ rpc' = "e_download"
            /\ exit_status' = exit_status
       ELSE /\ all_quotes' = all_quotes
            /\ rpc' = "exited"
            /\ exit_status' = 1
    /\ UNCHANGED <<json_file, csv_file, cache, phases, existing_quotes,
                   new_quotes>>
    /\ UNCHANGED <<json0, csv0, args, interrupted_at, runs>>
    /\ RunFrame

\* enrich_from_file: download_transcripts(seasons)
EnrichDownload ==
    /\ rpc = "e_download"
    /\ \E resp \in [ToFetch(cache, args.enrich_seasons) \cap PageKeys
                     -> RunResponses] :
        cache' = download_transcripts(cache, args.enrich_seasons, resp).cache
    /\ rpc' = "e_enrich"
    /\ UNCHANGED <<json_file, csv_file, phases, existing_quotes, new_quotes,
                   all_quotes>>
    /\ RunSame

\* enrich_from_file: enrich_quotes(quotes, seasons)
EnrichTag ==
    /\ rpc = "e_enrich"
    /\ \E titles \in TitleIndexes :
        all_quotes' = enrich_quotes(all_quotes, args.enrich_seasons, cache, titles)
    /\ rpc' = "export_json"
    /\ UNCHANGED <<json_file, csv_file, cache, phases, existing_quotes,
                   new_quotes>>
    /\ RunSame

\* main, lines 281-283: a KeyboardInterrupt arrives during the step the run
\* is at; the with block of an export closes its file as it is; main prints
\* that nothing was saved and calls sys.exit(1).
Interrupt ==
    /\ rpc \notin {"none", "done", "exited"}
    /\ interrupted_at' = rpc
    /\ rpc' = "exited"
    /\ exit_status' = 1
    /\ UNCHANGED <<json_file, csv_file, cache, phases, existing_quotes,
                   new_quotes, all_quotes>>
    /\ UNCHANGED <<json0, csv0, args, runs>>
    /\ RunFrame

\* main is run again.
StartRun ==
    /\ rpc \in {"done", "exited"}
    /\ runs < MaxRuns
    /\ runs' = runs + 1
    /\ json0' = json_file
    /\ csv0' = csv_file
    /\ \E a \in ArgSets :
        /\ args' = a
        /\ phases' = enabled_phases(a)
    /\ existing_quotes' = <<>> /\ new_quotes' = <<>> /\ all_quotes' = <<>>
    /\ rpc' = "start"
    /\ interrupted_at' = "none"
    /\ exit_status' = -1
    /\ UNCHANGED <<json_file, csv_file, cache>>
    /\ RunFrame

NextRunMain ==
    \/ StartMain
    \/ LoadExisting
    \/ ScrapePhase
    \/ Merge
    \/ CleanAll
    \/ DeduplicateAll
    \/ SortQuotes
    \/ OpenJson
    \/ WriteJson
    \/ CloseJson
    \/ OpenCsv
    \/ WriteCsv
    \/ CloseCsv
    \/ Finish
    \/ EnrichCheck
    \/ EnrichLoad
    \/ EnrichDownload
    \/ EnrichTag
    \/ Interrupt
    \/ StartRun

SpecRun == InitRun /\ [][NextRunMain]_vars

-----------------------------------------------------------------------------
(* A run of main with the requests of its scrapers and of the enricher     *)
(* spelled out page by page, and the trace of its network events.          *)

\* What a request for a page of a quote source can give: a RequestException,
\* or a page and the records the scraper's parser finds in it.
SourcePages == {<<"page", y>> : y \in ScrapeYields}
SourceResponses == {RequestError} \cup SourcePages

\* None, the result of a _fetch_page that failed, and the outcome of one that
\* let the exception through.
NoSoup == <<"None">>
Raised == <<"raised">>

\* A _fetch_page that lets the RequestException through.
fetch_page_raises(resp) == IF resp = RequestError THEN Raised ELSE resp

\* BaseScraper._fetch_page(url) when the request gives resp.
fetch_page(resp) == IF resp = RequestError THEN NoSoup ELSE resp

\* The pages a scraper requests: the three SOURCES of QuotesScraper, the page
\* of WikiquoteScraper and of IMDbScraper, the episode list and the episode
\* pages of TranscriptScraper; RawTextScraper and TranscriptMiner read files.
PhasePages(phase) ==
    CASE phase = "quotes" -> 3
      [] phase = "wikiquote" -> 1
      [] phase = "imdb" -> 1
      [] phase = "transcripts" -> 1 + MaxPageEpisode
      [] OTHER -> 0

\* SEED_QUOTES as _make_quote builds them, with the source name scrape
\* gives them.
SeedQuotes ==
    <<[MakeQuote(TextA, None, None, "", "") EXCEPT
          !.source_url = "https://multiple-sources",
          !.source_name = "WebResearch"]>>

\* The records a scraper finds in a page it got; the episode list page of
\* TranscriptScraper holds episodes, not records.
page_quotes(phase, i, soup) ==
    IF soup = NoSoup \/ (phase = "transcripts" /\ i = 1) THEN <<>>
    ELSE soup[2]

\* The loop over the pages of scraper.scrape() from page i on: the records
\* found, the network events, and whether an exception left the loop.
RECURSIVE scrape_from(_, _, _, _, _)
scrape_from(phase, resps, i, found, events) ==
    IF i > Len(resps)
    THEN [quotes |-> found, net |-> events, raised |-> FALSE]
    ELSE LET soup == fetch_page(resps[i])
             ev == <<"delay", IF resps[i] = RequestError THEN "error" ELSE "ok">>
         IN  IF soup = Raised
             THEN [quotes |-> found, net |-> events \o ev, raised |-> TRUE]
             ELSE scrape_from(phase, resps, i + 1,
                              found \o page_quotes(phase, i, soup),
                              events \o ev)

\* scraper.scrape() of a phase: resps are the responses of its pages, local
\* the records RawTextScraper or TranscriptMiner finds in its files.
scrape(phase, resps, local) ==
    LET r == scrape_from(phase, resps, 1, <<>>, <<>>)
    IN  IF r.raised THEN r
        ELSE [r EXCEPT !.quotes =
                 @ \o (IF phase = "quotes" THEN SeedQuotes ELSE <<>>)
                   \o (IF phase \in {"ingest", "mining"} THEN local ELSE <<>>)]

\* The network events of download_transcripts: a sleep and a request for
\* every episode requested.
RECURSIVE download_events(_, _)
download_events(requests, resp) ==
    IF requests = <<>> THEN <<>>
    ELSE <<"delay",
           IF ResponseOf(resp, Head(requests)) = RequestError
           THEN "error" ELSE "ok">>
         \o download_events(Tail(requests), resp)

\* The quotes file a run can find: none, or the export of an earlier run.
StoredQuotes == <<MakeQuote(QuoteAB, None, None, "", "")>>
StoredFiles ==
    {<<AbsentFile, AbsentFile>>,
     <<[exists |-> TRUE, parts |-> json_document(StoredQuotes, 0)],
       [exists |-> TRUE, parts |-> csv_document(StoredQuotes)]>>}

InitScrape ==
    /\ \E f \in StoredFiles :
        /\ json_file = f[1] /\ csv_file = f[2]
        /\ json0 = f[1] /\ csv0 = f[2]
    /\ args \in ArgSets
    /\ phases = enabled_phases(args)
    /\ existing_quotes = <<>> /\ new_quotes = <<>> /\ all_quotes = <<>>
    /\ rpc = "start"
    /\ interrupted_at = "none"
    /\ exit_status = -1
    /\ runs = 1
    /\ net = <<>>
    /\ cache \in {[k \in CacheKeys |-> NoFile],
                  [k \in CacheKeys |-> WriteText(PageText1)]}
    /\ seasons = <<>> /\ quotes0 = <<>> /\ equotes = <<>> /\ epc = "idle"
    /\ equotes2 = <<>>
    /\ NormIdle
    /\ DedupIdle
    /\ MatchIdle
    /\ CacheIdle
    /\ WriteIdle
    /\ SortIdle

\* run_collection, step 2: scraper.scrape() of the next enabled phase and
\* new_quotes.extend(quotes); an exception of scrape leaves run_collection
\* and main re-raises it.
ScrapePages ==
    /\ rpc = "scrape"
    /\ phases # <<>>
    /\ \E resps \in [1..PhasePages(Head(phases)) -> SourceResponses],
          local \in ScrapeYields :
        LET r == scrape(Head(phases), resps, local)
        IN  /\ Len(new_quotes) + Len(r.quotes) <= MaxNew
            /\ net' = net \o r.net
            /\ IF r.raised
               THEN /\ rpc' = "exited" /\ exit_status' = 1
                    /\ UNCHANGED <<new_quotes, phases>>
               ELSE /\ new_quotes' = new_quotes \o r.quotes
                    /\ phases' = Tail(phases)
                    /\ UNCHANGED <<rpc, exit_status>>
    /\ UNCHANGED <<json_file, csv_file, cache, existing_quotes, all_quotes>>
    /\ UNCHANGED <<json0, csv0, args, interrupted_at, runs>>
    /\ TraceFrame

\* enrich_from_file: download_transcripts(seasons), a sleep and a request
\* for every episode without a cache file.
DownloadTraced ==
    /\ rpc = "e_download"
    /\ \E resp \in [ToFetch(cache, args.enrich_seasons) \cap PageKeys
                     -> RunResponses] :
        LET d == download_transcripts(cache, args.enrich_seasons, resp)
        IN  /\ cache' = d.cache
            /\ net' = net \o download_events(d.requests, resp)
    /\ rpc' = "e_enrich"
    /\ UNCHANGED <<json_file, csv_file, phases, existing_quotes, new_quotes,
                   all_quotes>>
    /\ UNCHANGED <<json0, csv0, args, interrupted_at, exit_status, runs>>
    /\ TraceFrame

\* enrich_from_file: enrich_quotes(quotes, seasons), which starts with the
\* request of _get_episode_titles.
EnrichTraced ==
    /\ rpc = "e_enrich"
    /\ \E titles \in TitleIndexes :
        /\ all_quotes' = enrich_quotes(all_quotes, args.enrich_seasons, cache, titles)
        /\ net' = net \o <<IF titles = <<>> THEN "error" ELSE "ok">>
    /\ rpc' = "export_json"
    /\ UNCHANGED <<json_file, csv_file, cache, phases, existing_quotes,
                   new_quotes>>
    /\ UNCHANGED <<json0, csv0, args, interrupted_at, exit_status, runs>>
    /\ TraceFrame

NextScrape ==
    \/ StartMain
    \/ LoadExisting
    \/ ScrapePages
    \/ Merge
    \/ CleanAll
    \/ DeduplicateAll
    \/ SortQuotes
    \/ OpenJson
    \/ WriteJson
    \/ CloseJson
    \/ OpenCsv
    \/ WriteCsv
    \/ CloseCsv
    \/ Finish
    \/ EnrichCheck
    \/ EnrichLoad
    \/ DownloadTraced
    \/ EnrichTraced

SpecScrape == InitScrape /\ [][NextScrape]_vars

-----------------------------------------------------------------------------
(* A call of sort_quotes on a list of records.                             *)

\* The records of the model: two texts, each untagged, with a season only,
\* with an episode only, and with both.
SortTexts == {TextA, TextB}
SortPool ==
    {MakeQuote(t, s, e, "", "") :
        t \in SortTexts, s \in {None, 1, 2}, e \in {None, 1, 2}}

InitSort ==
    /\ sinput \in SeqsUpTo(SortPool, MaxSort)
    /\ soutput = <<>>
    /\ spc = "input"
    /\ NormIdle
    /\ DedupIdle
    /\ EnrichIdle
    /\ MatchIdle
    /\ CacheIdle
    /\ WriteIdle
    /\ RunIdle

SortQuotesCall ==
    /\ spc = "input"
    /\ soutput' = sort_quotes(sinput)
    /\ spc' = "done"
    /\ UNCHANGED sinput
    /\ UNCHANGED <<nvars, dvars, evars, mvars, cvars, wvars, rvars>>

NextSort == SortQuotesCall

SpecSort == InitSort /\ [][NextSort]_vars

-----------------------------------------------------------------------------
(* Vocabulary of the properties of deduplicate.                            *)

\* The metadata-richness score as the specification words it: +2 season,
\* +2 episode, +1 episode_title, +1 context.
Richness(q) ==
    (IF q.season # None /\ q.season # 0 THEN 2 ELSE 0)
    + (IF q.episode # None /\ q.episode # 0 THEN 2 ELSE 0)
    + (IF q.episode_title # "" THEN 1 ELSE 0)
    + (IF q.context # "" THEN 1 ELSE 0)

\* The rank of input position i in the richness-descending, tie-stable order.
RichnessRank(qs, i) ==
    1 + Cardinality({j \in 1..Len(qs) :
            \/ Richness(qs[j]) > Richness(qs[i])
            \/ (Richness(qs[j]) = Richness(qs[i]) /\ j < i)})

\* The input in richness-descending order, ties in input order.
RichnessOrder(qs) ==
    [r \in 1..Len(qs) |-> qs[CHOOSE i \in 1..Len(qs) : RichnessRank(qs, i) = r]]

\* The normalized text of a record.
NormText(q) == norm_of(q.quote)

\* similarity(a, b) >= thr
SimGeq(a, b, thr) == FracGeq(similarity(a, b), thr)

\* The positions of the richness order that the first pass retained.
KeptSet == {kept[k] : k \in 1..Len(kept)}

\* The positions of the richness order whose normalized text has at least 10
\* characters.
LongSet ==
    LET ord == RichnessOrder(quotes)
    IN  {i \in 1..Len(quotes) : Len(NormText(ord[i])) >= 10}

-----------------------------------------------------------------------------
(* C1: the list deduplicate returns holds no two distinct records whose    *)
(* normalized texts have similarity >= threshold, in either argument       *)
(* order, for every threshold in (0, 1].                                   *)
NoSimilarPairRetained ==
    dpc # "input" =>
        \A i, j \in 1..Len(unique) :
            i # j => ~SimGeq(NormText(unique[i]), NormText(unique[j]), threshold)

(* C2: deduplicate is idempotent for a fixed threshold:                    *)
(* deduplicate(deduplicate(x)) is the same list, in the same order, as     *)
(* deduplicate(x).                                                         *)
DedupIdempotent ==
    dpc = "twice" => unique2 = unique

\* A second pass over a result that holds several records, after a first pass
\* that dropped some.
DedupIdempotentWitness ==
    /\ dpc = "twice"
    /\ Len(unique) >= 2
    /\ Len(unique) < Len(quotes)
    /\ unique2 = unique

\* The number of output records whose normalized text is n.
CountWithNorm(n) == Cardinality({k \in 1..Len(unique) : NormText(unique[k]) = n})

\* The pairs of input positions whose records have the same normalized text.
SameNormPairs ==
    {p \in (1..Len(quotes)) \X (1..Len(quotes)) :
        p[1] < p[2] /\ NormText(quotes[p[1]]) = NormText(quotes[p[2]])}

(* C3, as claimed: when two or more input records have identical           *)
(* normalized text, the output holds exactly one record with that text.    *)
IdenticalCollapseToExactlyOne ==
    dpc # "input" =>
        \A p \in SameNormPairs : CountWithNorm(NormText(quotes[p[1]])) = 1

(* C3, amended: when two or more input records have identical normalized   *)
(* text, the output holds at most one record with that text; it holds none *)
(* only if the text is shorter than 10 characters or a retained record     *)
(* with another normalized text passes the length check with it and is     *)
(* similar to it at or above the threshold.                                *)
IdenticalCollapseToAtMostOne ==
    dpc # "input" =>
        \A p \in SameNormPairs :
            LET n == NormText(quotes[p[1]])
            IN  /\ CountWithNorm(n) <= 1
                /\ CountWithNorm(n) = 0 =>
                    \/ Len(n) < 10
                    \/ \E k \in 1..Len(unique) :
                        /\ NormText(unique[k]) # n
                        /\ length_check(n, NormText(unique[k]))
                        /\ SimGeq(n, NormText(unique[k]), threshold)

\* Two records with different texts and the same normalized text went in, one
\* record with that text came out, beside another record.
IdenticalCollapseWitness ==
    /\ dpc # "input"
    /\ \E p \in SameNormPairs :
        /\ quotes[p[1]].quote # quotes[p[2]].quote
        /\ CountWithNorm(NormText(quotes[p[1]])) = 1
    /\ Len(unique) >= 2

\* Two records are near-duplicates of each other: the similarity of their
\* normalized texts is >= thr in both argument orders.
NearDuplicates(a, b, thr) ==
    /\ SimGeq(NormText(a), NormText(b), thr)
    /\ SimGeq(NormText(b), NormText(a), thr)

\* The ordered pairs <<r, p>> of positions of the richness order ord such
\* that the records are near-duplicates and r is strictly richer than p.
RicherPoorerPairsOf(ord) ==
    {c \in (1..Len(ord)) \X (1..Len(ord)) :
        /\ Richness(ord[c[1]]) > Richness(ord[c[2]])
        /\ NearDuplicates(ord[c[1]], ord[c[2]], threshold)}

(* C4, as claimed: when two input records are near-duplicates and one is   *)
(* strictly richer, the output never retains the poorer one while dropping *)
(* the richer one, whatever other records the input contains.              *)
RicherNeverLosesToPoorer ==
    dpc # "input" =>
        \A ord \in {RichnessOrder(quotes)}, ks \in {KeptSet} :
            \A c \in RicherPoorerPairsOf(ord) :
                ~(c[2] \in ks /\ c[1] \notin ks)

(* C4, amended: when two input records are near-duplicates and one is      *)
(* strictly richer, the output retains the poorer one while dropping the   *)
(* richer one only if the richer one's normalized text is shorter than 10  *)
(* characters or the richer one is a duplicate (length check passed,       *)
(* similarity >= threshold) of a third, retained record that is at least   *)
(* as rich as it: the poorer record never displaces the richer one.        *)
RicherLosesOnlyToThird ==
    dpc # "input" =>
        \A ord \in {RichnessOrder(quotes)}, ks \in {KeptSet} :
            \A c \in RicherPoorerPairsOf(ord) :
                (c[2] \in ks /\ c[1] \notin ks) =>
                    \/ Len(NormText(ord[c[1]])) < 10
                    \/ \E j \in ks :
                        /\ j # c[2]
                        /\ Richness(ord[j]) >= Richness(ord[c[1]])
                        /\ length_check(NormText(ord[c[1]]), NormText(ord[j]))
                        /\ SimGeq(NormText(ord[c[1]]), NormText(ord[j]),
                                  threshold)

\* A richer and a poorer near-duplicate were both candidates (10 characters
\* or more), the richer one was retained and the poorer one dropped.
RicherSurvivesWitness ==
    /\ dpc # "input"
    /\ \E ord \in {RichnessOrder(quotes)}, ks \in {KeptSet}, ls \in {LongSet} :
        \E c \in RicherPoorerPairsOf(ord) :
            /\ c[1] \in ls /\ c[2] \in ls
            /\ c[1] \in ks /\ c[2] \notin ks

(* C5: every record deduplicate drops although its normalized text has at  *)
(* least 10 characters has a retained record that precedes it in the       *)
(* richness-descending, tie-stable order of the input and is similar to it *)
(* at or above the threshold; the first record of that order with 10       *)
(* characters or more is always retained.                                  *)
DroppedHasEarlierRetained ==
    dpc # "input" =>
        \A ord \in {RichnessOrder(quotes)}, ls \in {LongSet}, ks \in {KeptSet} :
            /\ \A i \in ls \ ks :
                \E j \in ks :
                    /\ j < i
                    /\ SimGeq(NormText(ord[i]), NormText(ord[j]), threshold)
            /\ \A i \in ls : (\A j \in ls : i <= j) => i \in ks

\* A record of 10 characters or more was dropped and another one retained
\* after the first.
DroppedHasEarlierRetainedWitness ==
    /\ dpc # "input"
    /\ LongSet \ KeptSet # {}
    /\ Cardinality(KeptSet) >= 2

(* C6: the output of deduplicate is a subsequence of the input sorted by   *)
(* richness descending with ties in input order: every output record is an *)
(* unmodified input record, none is duplicated, the output is no longer    *)
(* than the input (empty for the empty input), and no output record has a  *)
(* normalized text shorter than 10 characters.                             *)
OutputIsSubsequence ==
    dpc # "input" =>
        \A ord \in {RichnessOrder(quotes)} :
            /\ Len(unique) <= Len(quotes)
            /\ quotes = <<>> => unique = <<>>
            /\ Len(kept) = Len(unique)
            /\ \A k \in 1..Len(unique) :
                /\ kept[k] \in 1..Len(quotes)
                /\ unique[k] = ord[kept[k]]
                /\ Len(normalize_for_comparison(unique[k].quote)) >= 10
            /\ \A k \in 1..(Len(kept) - 1) : kept[k] < kept[k + 1]
            /\ \A k, l \in 1..Len(unique) : k # l => unique[k] # unique[l]

\* The input was not in richness order, a short record and a duplicate were
\* dropped, and a record was retained.
OutputIsSubsequenceWitness ==
    /\ dpc # "input"
    /\ RichnessOrder(quotes) # quotes
    /\ \E i \in 1..Len(quotes) : i \notin LongSet
    /\ LongSet \ KeptSet # {}
    /\ unique # <<>>

-----------------------------------------------------------------------------
(* C7: the text normalizer is idempotent, normalize(normalize(x)) =        *)
(* normalize(x) for every string x, for both copies of the normalizer.     *)
NormalizerIdempotent ==
    npc = "twice" => n2 = n1

(* C8: the normalizer's result consists only of lowercase letters, digits  *)
(* and single spaces: no other character, no two consecutive whitespace    *)
(* characters, no leading or trailing whitespace.                          *)
NormalizedIsCanonical ==
    npc \in {"once", "twice"} =>
        /\ \A i \in 1..Len(n1) : n1[i] \in LowerLetters \cup Digits \cup {" "}
        /\ \A i \in 1..(Len(n1) - 1) :
                ~(n1[i] \in Whitespace /\ n1[i + 1] \in Whitespace)
        /\ n1 # <<>> => (n1[1] \notin Whitespace /\ n1[Len(n1)] \notin Whitespace)

-----------------------------------------------------------------------------
(* Vocabulary of the properties of enrich_quotes.                          *)

\* The transcripts the run loaded.
LoadedTranscripts ==
    load_all_transcripts(cache, IF seasons = <<>> THEN AllSeasons ELSE seasons)

\* The seasons the run iterates over.
EffectiveSeasons == IF seasons = <<>> THEN AllSeasons ELSE seasons

\* The episodes whose transcript the run loads: a cache file exists and the
\* season is among the seasons of the run.
LoadedKeys ==
    {k \in CacheKeys :
        /\ cache[k] # NoFile
        /\ \E i \in 1..Len(EffectiveSeasons) : EffectiveSeasons[i] = k[1]}

\* Where a season comes first in the season list.
FirstIndex(s) ==
    CHOOSE i \in 1..Len(EffectiveSeasons) :
        /\ EffectiveSeasons[i] = s
        /\ \A j \in 1..(i - 1) : EffectiveSeasons[j] # s

\* Episode k1 comes before episode k2 in the iteration order: seasons in the
\* order of the season list, episodes ascending within a season.
Earlier(k1, k2) ==
    \/ FirstIndex(k1[1]) < FirstIndex(k2[1])
    \/ k1[1] = k2[1] /\ k1[2] < k2[2]

\* The normalized transcript of a cached episode, as a run reads it.
NormCached(k) == norm_transcript_of(cache[k])

\* The matcher accepts the record's text for the transcript of episode k.
MatchesKey(q, k) == find_in_transcript(q.quote, NormCached(k))

\* The normalized texts of the quotes of the enrichment runs and their
\* words, tabulated once.
EnrichNormTable == [t \in EnrichTexts |-> normalize(t)] @@ <<>>
EnrichNorm(text) ==
    IF text \in DOMAIN EnrichNormTable THEN EnrichNormTable[text]
    ELSE normalize(text)
EnrichWordsTable == [t \in EnrichTexts |-> Split(normalize(t))] @@ <<>>
EnrichWords(text) ==
    IF text \in DOMAIN EnrichWordsTable THEN EnrichWordsTable[text]
    ELSE Split(normalize(text))

\* The record's normalized text is verbatim in the transcript of episode k.
VerbatimIn(q, k) == IsSubstring(EnrichNorm(q.quote), NormCached(k))

\* Record i was untagged and the run tagged it.
NewlyTagged(i) == quotes0[i].season = None /\ equotes[i].season # None

\* The episode record i carries after the run.
TagOf(i) == <<equotes[i].season, equotes[i].episode>>

(* C9: enrichment never overwrites an existing non-null value: a season,   *)
(* episode or episode_title that is set before enrich_quotes runs has the  *)
(* same value afterwards, also on a record whose season is null.           *)
EnrichNeverOverwrites ==
    epc = "done" =>
        \A i \in 1..Len(quotes0) :
            /\ quotes0[i].season # None => equotes[i].season = quotes0[i].season
            /\ quotes0[i].episode # None => equotes[i].episode = quotes0[i].episode
            /\ quotes0[i].episode_title # "" =>
                    equotes[i].episode_title = quotes0[i].episode_title

(* C10: a record whose season is set before enrich_quotes runs is left     *)
(* completely untouched by it, even when a loaded transcript matches its   *)
(* text.                                                                   *)
TaggedUntouched ==
    epc = "done" =>
        /\ Len(equotes) = Len(quotes0)
        /\ \A i \in 1..Len(quotes0) :
              quotes0[i].season # None => equotes[i] = quotes0[i]

\* The run tagged a record, and left alone a tagged record whose text a
\* loaded transcript of another episode matches.
TaggedUntouchedWitness ==
    /\ epc = "done"
    /\ \E i, j \in 1..Len(quotes0) :
        /\ quotes0[i].season # None
        /\ \E t \in 1..Len(LoadedTranscripts) :
            /\ find_in_transcript(quotes0[i].quote, LoadedTranscripts[t][2])
            /\ LoadedTranscripts[t][1] # <<quotes0[i].season, quotes0[i].episode>>
        /\ quotes0[j].season = None
        /\ equotes[j].season # None

-----------------------------------------------------------------------------
(* C11: first match wins.  Every record that was untagged and is tagged    *)
(* (s, e) by enrich_quotes matches the transcript of (s, e) and matches no *)
(* loaded transcript that comes earlier in the iteration order (seasons in  *)
(* the order of the season list, episodes ascending); the order is the     *)
(* same for every record of the run.                                       *)
FirstMatchWins ==
    epc = "done" =>
        \A i \in 1..Len(quotes0) :
            NewlyTagged(i) =>
                /\ TagOf(i) \in LoadedKeys
                /\ MatchesKey(quotes0[i], TagOf(i))
                /\ \A k \in LoadedKeys :
                        Earlier(k, TagOf(i)) => ~MatchesKey(quotes0[i], k)

\* The season list is [2, 1]; a record was tagged with an episode of season
\* 2 although a loaded transcript of season 1 matches it too.
FirstMatchWinsWitness ==
    /\ epc = "done"
    /\ seasons = <<2, 1>>
    /\ \E i \in 1..Len(quotes0) :
        /\ NewlyTagged(i)
        /\ equotes[i].season = 2
        /\ \E k \in LoadedKeys : k[1] = 1 /\ MatchesKey(quotes0[i], k)

(* C12: an untagged quote whose normalized text is an exact substring of   *)
(* the cached transcript of episode (s, e), with s among the enriched      *)
(* seasons, is tagged season = s and episode = e by enrich_quotes.         *)
ExactSubstringTagged ==
    epc = "done" =>
        \A i \in 1..Len(quotes0) : \A k \in LoadedKeys :
            (quotes0[i].season = None /\ VerbatimIn(quotes0[i], k)) =>
                TagOf(i) = k

(* C12, amended: such a quote is tagged by enrich_quotes, and it is tagged *)
(* season = s and episode = e unless a loaded transcript that comes        *)
(* earlier in the iteration order matches it.                              *)
ExactSubstringTaggedFirst ==
    epc = "done" =>
        \A i \in 1..Len(quotes0) : \A k \in LoadedKeys :
            (quotes0[i].season = None /\ VerbatimIn(quotes0[i], k)) =>
                /\ equotes[i].season # None
                /\ (\A k2 \in LoadedKeys :
                        Earlier(k2, k) => ~MatchesKey(quotes0[i], k2))
                    => TagOf(i) = k

\* An untagged record with a text of some words is verbatim in two loaded
\* transcripts and carries the episode of the earlier one.
ExactSubstringTaggedWitness ==
    /\ epc = "done"
    /\ \E i \in 1..Len(quotes0) : \E k1, k2 \in LoadedKeys :
        /\ quotes0[i].season = None
        /\ EnrichNorm(quotes0[i].quote) # <<>>
        /\ VerbatimIn(quotes0[i], k1) /\ VerbatimIn(quotes0[i], k2)
        /\ Earlier(k1, k2)
        /\ TagOf(i) = k1

(* C13: a quote with at most 5 normalized words matches a transcript if   *)
(* and only if its normalized text is a substring of the normalized        *)
(* transcript; so such a quote that is verbatim in no loaded transcript is *)
(* never tagged by enrich_quotes, however many of its words or word groups *)
(* occur in the transcripts.                                               *)
ShortQuoteExactOnly ==
    epc = "done" =>
        \A i \in 1..Len(quotes0) :
            (quotes0[i].season = None
             /\ Len(EnrichWords(quotes0[i].quote)) <= 5) =>
                /\ \A k \in LoadedKeys :
                        MatchesKey(quotes0[i], k) <=> VerbatimIn(quotes0[i], k)
                /\ (\A k \in LoadedKeys : ~VerbatimIn(quotes0[i], k))
                    => equotes[i] = quotes0[i]

\* An untagged quote of five words was left untagged although its first
\* four words are, as a group, in a loaded transcript.
ShortQuoteExactOnlyWitness ==
    /\ epc = "done"
    /\ \E i \in 1..Len(quotes0) : \E k \in LoadedKeys :
        LET words == EnrichWords(quotes0[i].quote)
        IN  /\ quotes0[i].season = None
            /\ Len(words) = 5
            /\ IsSubstring(Join(SubSeq(words, 1, 4)), NormCached(k))
            /\ ~VerbatimIn(quotes0[i], k)
            /\ equotes[i] = quotes0[i]

-----------------------------------------------------------------------------
(* Vocabulary of the properties of _find_in_transcript.                    *)

\* The normalized words of the quote of the call.
MatchQuoteWords == Split(normalize(mquote))

\* The window of the key-phrase tier: min(5, n - 1) words.
WindowSize(n) == IF n - 1 < 5 THEN n - 1 ELSE 5

\* The word offsets 0, 3, 6, ... at which a full window of k words fits in a
\* quote of n words.
WindowOffsets(n, k) == {o \in 0..n : o % 3 = 0 /\ o + k <= n}

\* The offsets whose chunk of k words is a substring of the transcript.
ChunksFound(words, k) ==
    {o \in WindowOffsets(Len(words), k) :
        IsSubstring(Join(SubSeq(words, o + 1, o + k)), mtranscript)}

(* C14: for a quote with n > 5 normalized words that is not an exact       *)
(* substring of the transcript, _find_in_transcript returns true exactly   *)
(* when, among the chunks of min(5, n-1) consecutive words starting at     *)
(* word offsets 0, 3, 6, ... (every offset at which a full window fits),   *)
(* the number found as substrings of the transcript is >= 2 if there are 3 *)
(* or more chunks and >= 1 if there are fewer than 3.                      *)
KeyPhraseRule ==
    \A words \in {MatchQuoteWords} :
        (/\ mpc = "done"
         /\ Len(words) > 5
         /\ ~IsSubstring(normalize(mquote), mtranscript)) =>
            LET k == WindowSize(Len(words))
                needed == IF Cardinality(WindowOffsets(Len(words), k)) >= 3
                          THEN 2 ELSE 1
            IN  mresult <=> Cardinality(ChunksFound(words, k)) >= needed

\* A quote of three chunks that is not verbatim in the transcript was
\* accepted: two of its chunks are in the transcript and one is not.
KeyPhraseRuleWitness ==
    /\ mpc = "done"
    /\ mresult
    /\ ~IsSubstring(normalize(mquote), mtranscript)
    /\ Cardinality(WindowOffsets(Len(MatchQuoteWords), 5)) = 3
    /\ Cardinality(ChunksFound(MatchQuoteWords, 5)) = 2

-----------------------------------------------------------------------------
(* C15: a failed fetch never creates a cache entry.  Whenever              *)
(* _fetch_and_cache_transcript(s, e) is called with no cache entry for     *)
(* (s, e) and returns the empty string (request error, transcript          *)
(* container absent, or empty extracted text), no cache file for (s, e)    *)
(* exists afterwards.                                                      *)
FailedFetchLeavesNoEntry ==
    (/\ last.op = "fetch"
     /\ last.key \notin last.present
     /\ last.ret = <<>>) =>
        cache[last.key] = NoFile

(* C16: cache entries are immutable once written.  Over any sequence of    *)
(* download_transcripts, _fetch_and_cache_transcript,                      *)
(* _load_all_transcripts and enrich_quotes operations, once a cache entry  *)
(* exists for (s, e) its stored text never changes and the entry is never  *)
(* removed.                                                                *)
CacheEntriesImmutable ==
    [][\A k \in CacheKeys : cache[k] # NoFile => cache'[k] = cache[k]]_vars

\* A download ran over a cache that had an entry already and wrote another
\* one, and fetches and downloads had run before it.
CacheEntriesImmutableWitness ==
    /\ calls = MaxCalls
    /\ last.op = "download"
    /\ \E k1, k2 \in CacheKeys :
        /\ k1 \in last.present
        /\ k2 \notin last.present
        /\ cache[k2] # NoFile

(* C17: read-after-write of the transcript cache.  After                   *)
(* _fetch_and_cache_transcript(s, e) has succeeded and written text t,     *)
(* every later call for the same (s, e) returns exactly t and issues no    *)
(* network request.                                                        *)
ReadAfterWrite ==
    (/\ last.op = "fetch"
     /\ last.key \in last.present
     /\ written[last.key] # NoFile) =>
        /\ last.ret = written[last.key]
        /\ last.requests = <<>>

(* C18: crash safety of the cache write.  If the process crashes or is    *)
(* interrupted at any point while a transcript is being written to the     *)
(* cache, then afterwards the cache either has no entry for that (season,  *)
(* episode) or holds the complete transcript; a partially written file is  *)
(* never visible as a present cache entry.                                 *)
CrashLeavesNoPartialEntry ==
    wpc = "crashed" =>
        \/ cache[wkey] = NoFile
        \/ cache[wkey] = WriteText(wtext)

-----------------------------------------------------------------------------
(* Vocabulary of the properties of main.                                   *)

\* The run was ended by a KeyboardInterrupt.
Interrupted == rpc = "exited" /\ interrupted_at # "none"

\* The steps of a collection run before the export step has started.
BeforeExport ==
    {"start", "load", "scrape", "clean", "dedup", "sort"}

\* The persisted outputs are as they were when the run started.
OutputsUntouched == json_file = json0 /\ csv_file = csv0

\* The JSON and the CSV output describe the same collection: both are
\* absent, or the JSON output is a whole document and the CSV output holds
\* the header and the rows of its quotes.
OutputsAgree ==
    \/ ~json_file.exists /\ ~csv_file.exists
    \/ /\ json_complete(json_file)
       /\ csv_file.exists
       /\ csv_file.parts = csv_document(json_quotes(json_file))

(* C19: if a user interrupt arrives at any point of a collection run       *)
(* before the export step starts (during loading, any scraper phase,       *)
(* merge, clean, dedup or sort), the persisted JSON and CSV outputs are    *)
(* identical to their state before the run: no partial in-memory result is *)
(* saved.                                                                  *)
InterruptBeforeExportSavesNothing ==
    (Interrupted /\ ~args.enrich /\ interrupted_at \in BeforeExport) =>
        OutputsUntouched

\* A collection run that had loaded a stored collection and scraped a new
\* quote was interrupted while sorting, with a collection in memory that
\* differs from the stored one.
InterruptBeforeExportWitness ==
    /\ Interrupted
    /\ ~args.enrich
    /\ interrupted_at = "sort"
    /\ json_complete(json0)
    /\ new_quotes # <<>>
    /\ all_quotes # json_quotes(json0)

(* C20: every run of main that is ended by a user interrupt exits with a   *)
(* non-zero status and, having reported that nothing was saved, leaves the *)
(* persisted JSON and CSV outputs exactly as they were before the run,     *)
(* whatever step (scraping, JSON export, CSV export, enrichment) the       *)
(* interrupt arrives in; the JSON and CSV outputs never end up describing  *)
(* different collections.                                                  *)
InterruptSavesNothing ==
    /\ Interrupted => (exit_status # 0 /\ OutputsUntouched)
    /\ rpc \in {"done", "exited"} => OutputsAgree

(* C21: a missing or malformed persisted quote store is never fatal.  In   *)
(* every entry point that loads the store, a store that is absent or       *)
(* cannot be parsed is treated as the empty collection and the run         *)
(* continues: no run that was not interrupted ends by an exception while   *)
(* the store is absent or unparsable.                                      *)
MalformedStoreNeverFatal ==
    (~json_complete(json_file) /\ interrupted_at = "none") => rpc # "exited"

-----------------------------------------------------------------------------
(* Vocabulary of the properties of the network trace.                      *)

\* A request of the run failed.
FetchFailed == \E i \in 1..Len(net) : net[i] = "error"

\* The requests of a trace.
Requests(t) == {i \in 1..Len(t) : t[i] # "delay"}

\* The pages the scrapers of the phases ps request.
RECURSIVE TotalPages(_)
TotalPages(ps) ==
    IF ps = <<>> THEN 0 ELSE PhasePages(Head(ps)) + TotalPages(Tail(ps))

\* The steps of a collection run after the scraper phases and the merge.
AfterScraping ==
    {"clean", "dedup", "sort", "export_json", "write_json", "export_csv",
     "write_csv", "stats", "done"}

\* A collection run that had a failed request does not end by an exception;
\* once its phases are over every page of every enabled phase was requested;
\* and when it is done the outputs hold the merged collection, cleaned,
\* deduplicated and sorted.
FailedRunGoesOn ==
    (~args.enrich /\ FetchFailed) =>
        /\ rpc # "exited"
        /\ rpc \in AfterScraping =>
              Cardinality(Requests(net)) = TotalPages(enabled_phases(args))
        /\ rpc = "done" =>
              /\ all_quotes =
                    sort_quotes(deduplicate(
                        clean_all(existing_quotes \o new_quotes),
                        DefaultThreshold))
              /\ json_file.parts = json_document(all_quotes, runs)
              /\ csv_file.parts = csv_document(all_quotes)

\* A scraper phase all of whose requests failed adds nothing but the seed
\* quotes, and the run goes on with the next phase.
FailedPhaseAddsNothing ==
    (/\ rpc = "scrape"
     /\ phases # <<>>
     /\ Len(net') > Len(net)
     /\ \A i \in (Len(net) + 1)..Len(net') : net'[i] # "ok") =>
        /\ rpc' = "scrape"
        /\ phases' = Tail(phases)
        /\ new_quotes' =
              new_quotes \o (IF Head(phases) = "quotes" THEN SeedQuotes ELSE <<>>)

(* C22: a network/HTTP failure while fetching any source never aborts a    *)
(* collection run: the failing page contributes zero records, every        *)
(* remaining enabled scraper phase still runs, and the merge, dedup, sort  *)
(* and export steps are still executed.                                    *)
FetchFailureNeverAborts ==
    []FailedRunGoesOn /\ [][FailedPhaseAddsNothing]_vars

\* A collection run is done in which a request failed, a later request got
\* a page with a record, and the record is in the exported collection.
FetchFailureNeverAbortsWitness ==
    /\ rpc = "done"
    /\ ~args.enrich
    /\ \E i, j \in 1..Len(net) : i < j /\ net[i] = "error" /\ net[j] = "ok"
    /\ Len(new_quotes) = MaxNew
    /\ json_complete(json_file)
    /\ Len(json_quotes(json_file)) >= 1

(* C23: politeness ordering.  In every run, between any two consecutive    *)
(* network fetches there is a delay step: each fetch (transcript download, *)
(* episode-title listing, site page) is followed by a delay before the     *)
(* next fetch is issued.                                                   *)
DelayBetweenFetches ==
    \A i \in 1..(Len(net) - 1) : net[i] # "delay" => net[i + 1] = "delay"

-----------------------------------------------------------------------------
(* Vocabulary of the properties of sort_quotes.                            *)

\* How many times a record occurs in a list.
Occurrences(qs, q) == Cardinality({i \in 1..Len(qs) : qs[i] = q})

\* a is a permutation of b.
IsPermutation(a, b) ==
    /\ Len(a) = Len(b)
    /\ \A i \in 1..Len(a) : Occurrences(a, a[i]) = Occurrences(b, a[i])

\* v1 comes no later than v2 among seasons or episodes, a missing one last.
NumberLeq(v1, v2) == v2 = None \/ (v1 # None /\ v1 <= v2)

\* q1 comes no later than q2 in the order by (season, episode, text).
RecordLeq(q1, q2) ==
    \/ q1.season # q2.season /\ NumberLeq(q1.season, q2.season)
    \/ /\ q1.season = q2.season
       /\ q1.episode # q2.episode
       /\ NumberLeq(q1.episode, q2.episode)
    \/ /\ q1.season = q2.season
       /\ q1.episode = q2.episode
       /\ ~TextLess(q2.quote, q1.quote)

(* C24: sort_quotes returns a permutation of its input ordered ascending   *)
(* by (season, episode, text), in which every record that has a season     *)
(* precedes every record without one and, within a season, every record    *)
(* that has an episode precedes every record without one.                  *)
SortedPermutation ==
    spc = "done" =>
        /\ IsPermutation(soutput, sinput)
        /\ \A i, j \in 1..Len(soutput) :
              i < j =>
                 /\ RecordLeq(soutput[i], soutput[j])
                 /\ soutput[i].season = None => soutput[j].season = None
                 /\ (/\ soutput[i].season = soutput[j].season
                     /\ soutput[i].season # None
                     /\ soutput[i].episode = None) =>
                        soutput[j].episode = None

\* A list that was not in order was sorted: a record without a season was
\* first, and a record of a season without an episode came before one of
\* the same season with an episode.
SortedPermutationWitness ==
    /\ spc = "done"
    /\ Len(sinput) = MaxSort
    /\ soutput # sinput
    /\ sinput[1].season = None
    /\ \E i, j \in 1..Len(sinput) :
          /\ i < j
          /\ sinput[i].season # None
          /\ sinput[i].season = sinput[j].season
          /\ sinput[i].episode = None
          /\ sinput[j].episode # None

-----------------------------------------------------------------------------
(* Vocabulary of the properties of download_transcripts.                   *)

\* The step is a download_transcripts run.
DownloadStep == calls' = calls + 1 /\ last'.op = "download"

\* The episodes of the seasons a download_transcripts run was asked for.
Requested(ss) ==
    LET visits == Visits(IF ss = <<>> THEN AllSeasons ELSE ss)
    IN  {visits[i] : i \in 1..Len(visits)}

\* The run fetched each episode at most once, and only episodes of the
\* requested seasons that had no cache entry.
FetchedOnceIfAbsent ==
    DownloadStep =>
        \A i \in 1..Len(last'.requests) :
            /\ last'.requests[i] \in Requested(last'.seasons)
            /\ cache[last'.requests[i]] = NoFile
            /\ \A j \in 1..Len(last'.requests) :
                  last'.requests[j] = last'.requests[i] => j = i

\* An episode whose fetch failed is left without a cache entry, and a run
\* fetches every episode of the requested seasons that has none: the next
\* run fetches it again.
FailedIsFetchedAgain ==
    DownloadStep =>
        /\ \A k \in last'.failed : cache'[k] = NoFile
        /\ \A k \in Requested(last'.seasons) :
              cache[k] = NoFile =>
                 \E i \in 1..Len(last'.requests) : last'.requests[i] = k

\* A run that finds every episode cached fetches nothing and writes nothing.
AllCachedIsNoOp ==
    (DownloadStep /\ Requested(last'.seasons) \subseteq Present(cache)) =>
        /\ last'.requests = <<>>
        /\ cache' = cache

(* C25: no retry within a run.  In one download_transcripts run each       *)
(* (season, episode) of the requested seasons is fetched from the network  *)
(* at most once, and only if it has no cache entry when it is reached; an  *)
(* episode whose fetch failed in one run is fetched again by the next run, *)
(* and re-invoking download_transcripts when every episode is cached       *)
(* performs no fetch and no write.                                         *)
NoRetryWithinRun ==
    [][FetchedOnceIfAbsent /\ FailedIsFetchedAgain /\ AllCachedIsNoOp]_vars

-----------------------------------------------------------------------------
(* C26: frame of enrichment.  enrich_quotes returns the same collection    *)
(* with the same records in the same order and changes nothing except the  *)
(* season, episode and episode_title of records that were untagged and     *)
(* match a loaded transcript (episode_title becoming the title-index entry *)
(* for that episode, or the empty string when the index has none or could  *)
(* not be fetched); a record that matches no loaded transcript, and the    *)
(* text, context, source_url and source_name of every record, are          *)
(* unchanged.                                                              *)
EnrichmentFrame ==
    epc = "done" =>
        /\ Len(equotes) = Len(quotes0)
        /\ \A i \in 1..Len(quotes0) :
            /\ equotes[i].quote = quotes0[i].quote
            /\ equotes[i].context = quotes0[i].context
            /\ equotes[i].source_url = quotes0[i].source_url
            /\ equotes[i].source_name = quotes0[i].source_name
            /\ IF /\ quotes0[i].season = None
                  /\ \E k \in LoadedKeys : MatchesKey(quotes0[i], k)
               THEN /\ TagOf(i) \in LoadedKeys
                    /\ MatchesKey(quotes0[i], TagOf(i))
                    /\ equotes[i].episode_title \in {PageTitle(TagOf(i)), ""}
               ELSE equotes[i] = quotes0[i]

\* A run over two records: one without a season, with an episode and a
\* title, that matched and whose title became the empty string, and an
\* untagged one that matches no loaded transcript and is as it was.
EnrichmentFrameWitness ==
    /\ epc = "done"
    /\ Len(quotes0) = 2
    /\ \E i, j \in 1..2 :
        /\ NewlyTagged(i)
        /\ quotes0[i].episode_title = "old"
        /\ equotes[i].episode_title = ""
        /\ quotes0[j].season = None
        /\ LoadedKeys # {}
        /\ \A k \in LoadedKeys : ~MatchesKey(quotes0[j], k)
        /\ equotes[j] = quotes0[j]

-----------------------------------------------------------------------------
(* Vocabulary of the properties of the length pre-filter.                  *)

\* The algorithm of deduplicate with the similarity of every pair of a
\* candidate and an accepted text computed.
is_dup_every_pair(norm, normalized_cache, thr) ==
    \E k \in 1..Len(normalized_cache) :
        FracGeq(similarity(norm, normalized_cache[k]), thr)

RECURSIVE walk_every_pair(_, _, _, _, _)
walk_every_pair(sorted_qs, idx, uniq, normalized_cache, thr) ==
    IF idx > Len(sorted_qs) THEN uniq
    ELSE LET norm == norm_of(sorted_qs[idx].quote)
         IN  IF too_short(norm)
             THEN walk_every_pair(sorted_qs, idx + 1, uniq, normalized_cache, thr)
             ELSE IF is_dup_every_pair(norm, normalized_cache, thr)
             THEN walk_every_pair(sorted_qs, idx + 1, uniq, normalized_cache, thr)
             ELSE walk_every_pair(sorted_qs, idx + 1,
                                  Append(uniq, sorted_qs[idx]),
                                  Append(normalized_cache, norm), thr)

deduplicate_every_pair(qs, thr) ==
    IF qs = <<>> THEN <<>>
    ELSE walk_every_pair(sorted_quotes(qs), 1, <<>>, <<>>, thr)

\* One length is at least twice the other.
FactorTwoApart(a, b) == Len(a) >= 2 * Len(b) \/ Len(b) >= 2 * Len(a)

(* C27: the length pre-filter does not change the result of deduplicate    *)
(* for any threshold above 2/3 (including the default 0.85): a candidate   *)
(* is compared with an accepted text only when len(candidate) /            *)
(* len(accepted) lies strictly between 0.5 and 2.0 (a factor of exactly 2  *)
(* is skipped), so a retained record that is similar enough to an earlier  *)
(* retained one has a length at least twice or at most half of it; and the *)
(* list returned equals the list returned by the same algorithm computing  *)
(* the similarity of every candidate/accepted pair.                        *)
PrefilterKeepsResult ==
    dpc # "input" =>
        /\ \A i, j \in 1..Len(unique) :
              (i < j /\ SimGeq(NormText(unique[j]), NormText(unique[i]), threshold))
                  => FactorTwoApart(NormText(unique[j]), NormText(unique[i]))
        /\ 3 * threshold[1] > 2 * threshold[2] =>
              unique = deduplicate_every_pair(quotes, threshold)

\* A run at the default threshold in which the length check skipped a pair,
\* a text and one exactly twice as long that were both retained, and in
\* which another record was dropped as a duplicate.
PrefilterKeepsResultWitness ==
    /\ dpc = "once"
    /\ threshold = <<17, 20>>
    /\ Len(unique) < Len(quotes)
    /\ \E i, j \in 1..Len(unique) :
          /\ i # j
          /\ Len(NormText(unique[j])) = 2 * Len(NormText(unique[i]))

-----------------------------------------------------------------------------
(* C28: enrichment is idempotent.  With an unchanged transcript cache,     *)
(* running enrich_quotes a second time on the collection it returned       *)
(* changes no field of any record: records tagged in the first pass are    *)
(* skipped, records unmatched in the first pass stay unmatched.  The       *)
(* second pass may even get another title index than the first.            *)
EnrichIdempotent ==
    epc = "twice" => equotes2 = equotes

\* A second pass over two records: one the first pass tagged, with the
\* empty title, and one it left untagged; transcripts were loaded.
EnrichIdempotentWitness ==
    /\ epc = "twice"
    /\ LoadedKeys # {}
    /\ Len(quotes0) = 2
    /\ \E i, j \in 1..2 :
        /\ NewlyTagged(i)
        /\ equotes[i].episode_title = ""
        /\ equotes[j].season = None
    /\ equotes2 = equotes

-----------------------------------------------------------------------------
(* A collection run followed by a second one that scrapes nothing new:     *)
(* main --wikiquote-only twice, the page down the second time.             *)

\* --wikiquote-only
RerunArgs == Flags(FALSE, <<>>, FALSE, TRUE, FALSE, FALSE, FALSE, FALSE)

\* Texts of the page as get_text() gives them.
RerunTexts ==
    {TextA, TextA2, TextB,
     <<"U+201C", "'", "\"">> \o TextD \o <<"\"", "'", "U+201D">>}

\* _make_quote(text, url, season): the text cleaned, None for a text of
\* fewer than 10 characters.
RerunPool ==
    {MakeQuote(clean_quote(t), s, None, "", "") :
        t \in {x \in RerunTexts : Len(clean_quote(x)) >= 10},
        s \in {None, 1}}

\* What the first run scrapes: one or two quotes of the page, in page order.
RerunYields ==
    {<<q>> : q \in RerunPool}
    \cup {<<p, q>> : p \in RerunPool, q \in RerunPool}

InitRerun ==
    /\ json_file = AbsentFile /\ csv_file = AbsentFile
    /\ json0 = AbsentFile /\ csv0 = AbsentFile
    /\ args = RerunArgs
    /\ phases = enabled_phases(args)
    /\ existing_quotes = <<>> /\ new_quotes = <<>> /\ all_quotes = <<>>
    /\ rpc = "start"
    /\ interrupted_at = "none"
    /\ exit_status = -1
    /\ runs = 1
    /\ net = <<>>
    /\ cache = [k \in CacheKeys |-> NoFile]
    /\ seasons = <<>> /\ quotes0 = <<>> /\ equotes = <<>> /\ epc = "idle"
    /\ equotes2 = <<>>
    /\ NormIdle
    /\ DedupIdle
    /\ MatchIdle
    /\ CacheIdle
    /\ WriteIdle
    /\ SortIdle

\* run_collection, step 2, first run: the page is fetched and gives quotes.
ScrapeFound ==
    /\ rpc = "scrape"
    /\ phases # <<>>
    /\ runs = 1
    /\ \E y \in RerunYields : new_quotes' = new_quotes \o y
    /\ phases' = Tail(phases)
    /\ UNCHANGED <<json_file, csv_file, cache, existing_quotes, all_quotes, rpc>>
    /\ RunSame

\* run_collection, step 2, second run: the fetch fails, scrape() returns [].
ScrapeNothing ==
    /\ rpc = "scrape"
    /\ phases # <<>>
    /\ runs > 1
    /\ phases' = Tail(phases)
    /\ UNCHANGED <<json_file, csv_file, cache, existing_quotes, new_quotes,
                   all_quotes, rpc>>
    /\ RunSame

\* main is run again with the same command line.
RunAgain ==
    /\ rpc = "done"
    /\ runs < MaxRuns
    /\ runs' = runs + 1
    /\ json0' = json_file
    /\ csv0' = csv_file
    /\ phases' = enabled_phases(args)
    /\ existing_quotes' = <<>> /\ new_quotes' = <<>> /\ all_quotes' = <<>>
    /\ rpc' = "start"
    /\ UNCHANGED <<json_file, csv_file, cache, args, interrupted_at,
                   exit_status>>
    /\ RunFrame

NextRerun ==
    \/ StartMain
    \/ LoadExisting
    \/ ScrapeFound
    \/ ScrapeNothing
    \/ Merge
    \/ CleanAll
    \/ DeduplicateAll
    \/ SortQuotes
    \/ OpenJson
    \/ WriteJson
    \/ CloseJson
    \/ OpenCsv
    \/ WriteCsv
    \/ CloseCsv
    \/ Finish
    \/ RunAgain

SpecRerun == InitRerun /\ [][NextRerun]_vars

\* The second run has gone through the pipeline.
RerunProcessed == runs = 2 /\ rpc = "export_json"

(* C29: the collection pipeline is a fixpoint on its own output.  A second *)
(* run that scrapes nothing new puts the list the first run exported       *)
(* through clean_all, deduplicate and sort_quotes and gets the same        *)
(* records in the same order: no stored quote is dropped, altered or       *)
(* reordered.                                                              *)
PipelineFixpoint ==
    RerunProcessed => all_quotes = json_quotes(json0)

-----------------------------------------------------------------------------
\* Record i of the input is untagged and its normalized text is empty.
EmptyUntagged(i) ==
    /\ quotes0[i].season = None
    /\ EnrichNorm(quotes0[i].quote) = <<>>

\* Record i got the episode that comes first among the loaded transcripts.
TaggedWithFirstLoaded(i) ==
    /\ NewlyTagged(i)
    /\ TagOf(i) \in LoadedKeys
    /\ \A k \in LoadedKeys : ~Earlier(k, TagOf(i))

(* C30, as stated: an untagged quote whose normalized text is empty is a   *)
(* tier-1 match of every transcript, so enrich_quotes tags it with the     *)
(* first loaded transcript whenever at least one transcript is cached,     *)
(* whatever that transcript contains.                                      *)
EmptyQuoteTaggedWheneverCached ==
    epc = "done" =>
        \A i \in 1..Len(quotes0) :
            EmptyUntagged(i) =>
                /\ \A k \in Present(cache) : MatchesKey(quotes0[i], k)
                /\ Present(cache) # {} => TaggedWithFirstLoaded(i)

(* C30, amended: an untagged quote whose normalized text is empty is a     *)
(* tier-1 match of every transcript, so enrich_quotes tags it with the     *)
(* first loaded transcript whenever at least one transcript of the seasons *)
(* of the run is cached, whatever that transcript contains.                *)
EmptyQuoteTaggedWheneverLoaded ==
    epc = "done" =>
        \A i \in 1..Len(quotes0) :
            EmptyUntagged(i) =>
                /\ \A k \in Present(cache) : MatchesKey(quotes0[i], k)
                /\ LoadedKeys # {} => TaggedWithFirstLoaded(i)

\* A punctuation-only quote tagged with the first of two loaded transcripts
\* of different content, none of which holds a character of it.
EmptyQuoteTaggedWitness ==
    /\ epc = "done"
    /\ \E i \in 1..Len(quotes0) :
        /\ quotes0[i].quote = QuotePunct
        /\ EmptyUntagged(i)
        /\ TaggedWithFirstLoaded(i)
        /\ \E k \in LoadedKeys :
            /\ Earlier(TagOf(i), k)
            /\ cache[k] # cache[TagOf(i)]

=============================================================================
